---- MODULE Spec2Model ----
(***************************************************************************)
(* Submission status lifecycle of the video generator backend.             *)
(*                                                                         *)
(* The model follows src/backend/app: the submissions table and its        *)
(* update primitive (crud.py), the moderation endpoints (routers/          *)
(* moderation.py), the submission endpoint (routers/submissions.py) and    *)
(* the Cloud Tasks target generate_video with its provider calls           *)
(* (routers/generation.py).  Every "await" on the store or on the provider *)
(* is a point where other requests of the request-concurrent server run,   *)
(* so each handler is split into one action per store/provider round trip. *)
(*                                                                         *)
(* The video provider and the store availability are the environment: the  *)
(* provider answers are drawn from the answers the handler code branches   *)
(* on, and every store call either succeeds or raises.  Timestamps are     *)
(* kept as "set / not set" (photo_moderated_at, video_moderated_at);       *)
(* updated_at, which every write refreshes, is not represented.            *)
(***************************************************************************)
EXTENDS Integers, FiniteSets, Sequences, TLC

\* ---------------------------------------------------------------- bounds
NumRequests == 3
NumRequestsWide == 4
NumRequestsEndToEnd == 5
MaxPollingAttempts == 2
MaxRetries == 1
\* The submissions in the list of the moderation UI.
NumItems == 3
\* The standalone app: the browser sessions, the tasks they create, and the
\* status checks of one job (20 in process_queue_worker).
NumSessions == 2
NumTasks == 2
MaxStatusChecks == 2
\* max_size of the connection pool (5 in connect_db).
PoolMaxSize == 2

\* Every statement of crud.py is "WHERE id = $n" and no handler touches two
\* rows, so submissions do not interact; the model follows one submission id.
Ids == {"s1"}

\* ---------------------------------------------------------------- values
None == "None"

PENDING_PHOTO_APPROVAL == "PENDING_PHOTO_APPROVAL"
PHOTO_REJECTED == "PHOTO_REJECTED"
PHOTO_APPROVED == "PHOTO_APPROVED"
QUEUED_FOR_GENERATION == "QUEUED_FOR_GENERATION"
GENERATING_VIDEO == "GENERATING_VIDEO"
GENERATION_FAILED == "GENERATION_FAILED"
PENDING_VIDEO_APPROVAL == "PENDING_VIDEO_APPROVAL"
VIDEO_REJECTED == "VIDEO_REJECTED"
VIDEO_APPROVED == "VIDEO_APPROVED"

SubmissionStatusEnum ==
    { PENDING_PHOTO_APPROVAL, PHOTO_REJECTED, PHOTO_APPROVED, QUEUED_FOR_GENERATION,
      GENERATING_VIDEO, GENERATION_FAILED, PENDING_VIDEO_APPROVAL, VIDEO_REJECTED,
      VIDEO_APPROVED }

\* user_prompt of a new submission, and what a prompt edit replaces it with.
Prompts == {"p1"}
\* utils.generate_submission_code: the public code of a submission, and the
\* place in the bucket its photo is uploaded to.
Codes == {"c1"}
PhotoPath(code) == "gs://bucket/pending_photos/" \o code
EditedPrompts == {"p2"}
\* The output location the provider reports for the job of invocation h;
\* every job has its own.
VideoUri(h) == "gs://generated_videos/" \o ToString(h)
ProviderErrors == {"provider error"}
\* The reason a moderator gives with a decision.
Comments == {"comment"}
ExceptionDetail == "exception detail"
MissingUriError == "Job succeeded but output URI was missing."
TimeoutError == "Polling timed out"

HTTP_200 == 200
HTTP_204 == 204
HTTP_400 == 400
HTTP_403 == 403
HTTP_404 == 404
HTTP_500 == 500
HTTP_503 == 503

VARIABLES subs, hnd, mods, tasks, jobs, hdr, ui, app

vars == <<subs, hnd, mods, tasks, jobs, hdr, ui, app>>

\* The requests the server takes in a run, numbered in the order in which
\* they arrive; each is a moderation request or a delivery of a Cloud Task.
\* How many there are is set by the initial state.
Requests == DOMAIN hnd
Handlers == Requests
Mods == Requests

\* ---------------------------------------------------------------- api.py
\* settings.api_key, and what a request can bring in its X-API-Key header:
\* nothing, another value, or the key.
API_KEY == "api key"
ApiKeys == { None, "wrong key", API_KEY }

\* A dependency that also lets a request without the header through.
get_api_key_accepts_missing(api_key) == api_key \in { None, API_KEY }

\* get_api_key, the dependency of every route of the application: the
\* request goes on when its header equals the key; otherwise 403 is raised
\* before the route's own dependencies and its handler run.
get_api_key(api_key) == api_key = API_KEY

\* ---------------------------------------------------------------- crud.py
\* SELECT * FROM submissions WHERE id = submission_id: the row, or None.
get_submission_by_id(s, submission_id) ==
    IF submission_id \in DOMAIN s THEN s[submission_id] ELSE [ status |-> None ]

\* INSERT of create_submission: the new row.
create_submission(code, photo_gcs_path, prompt) ==
    [ submission_code |-> code,
      uploaded_photo_gcs_path |-> photo_gcs_path,
      status |-> PENDING_PHOTO_APPROVAL,
      user_prompt |-> prompt,
      generated_video_gcs_path |-> None,
      error_message |-> None,
      comment |-> None,
      photo_moderated_at |-> FALSE,
      video_moderated_at |-> FALSE ]

\* An update that leaves generated_video_gcs_path out of the SET list.
update_submission_status_no_video(s, submission_id, new_status, comment, video_gcs_path, error_message, set_photo_moderated, set_video_moderated) ==
    IF submission_id \notin DOMAIN s
    THEN [ subs |-> s, updated |-> FALSE ]
    ELSE [ subs |-> [ s EXCEPT ![submission_id] =
                        [ @ EXCEPT
                            !.status = new_status,
                            !.comment = comment,
                            !.error_message = error_message,
                            !.photo_moderated_at =
                                IF set_photo_moderated THEN TRUE ELSE @,
                            !.video_moderated_at =
                                IF set_video_moderated THEN TRUE ELSE @ ] ],
           updated |-> TRUE ]

\* An update that writes error_message only when one is given.
update_submission_status_keeps_error(s, submission_id, new_status, comment, video_gcs_path, error_message, set_photo_moderated, set_video_moderated) ==
    IF submission_id \notin DOMAIN s
    THEN [ subs |-> s, updated |-> FALSE ]
    ELSE [ subs |-> [ s EXCEPT ![submission_id] =
                        [ @ EXCEPT
                            !.status = new_status,
                            !.comment = comment,
                            !.error_message =
                                IF error_message # None THEN error_message ELSE @,
                            !.generated_video_gcs_path =
                                IF video_gcs_path # None THEN video_gcs_path ELSE @,
                            !.photo_moderated_at =
                                IF set_photo_moderated THEN TRUE ELSE @,
                            !.video_moderated_at =
                                IF set_video_moderated THEN TRUE ELSE @ ] ],
           updated |-> TRUE ]

\* UPDATE submissions SET status, comment, error_message, updated_at
\* [, generated_video_gcs_path] [, photo_moderated_at] [, video_moderated_at]
\* WHERE id = submission_id.  No condition on the current status; comment and
\* error_message are always part of the SET list, with NULL when not given.
\* The result is the new table and the "UPDATE 1" flag.
update_submission_status(s, submission_id, new_status, comment, video_gcs_path, error_message, set_photo_moderated, set_video_moderated) ==
    IF submission_id \notin DOMAIN s
    THEN [ subs |-> s, updated |-> FALSE ]
    ELSE [ subs |-> [ s EXCEPT ![submission_id] =
                        [ @ EXCEPT
                            !.status = new_status,
                            !.comment = comment,
                            !.error_message = error_message,
                            !.generated_video_gcs_path =
                                IF video_gcs_path # None THEN video_gcs_path ELSE @,
                            !.photo_moderated_at =
                                IF set_photo_moderated THEN TRUE ELSE @,
                            !.video_moderated_at =
                                IF set_video_moderated THEN TRUE ELSE @ ] ],
           updated |-> TRUE ]

\* A prompt update that is refused once generation has started.
update_submission_prompt_pre_generation_only(s, submission_id, new_prompt) ==
    IF submission_id \notin DOMAIN s
    THEN [ subs |-> s, updated |-> FALSE ]
    ELSE IF s[submission_id].status \notin {PENDING_PHOTO_APPROVAL, PHOTO_APPROVED}
    THEN [ subs |-> s, updated |-> FALSE ]
    ELSE [ subs |-> [ s EXCEPT ![submission_id].user_prompt = new_prompt ],
           updated |-> TRUE ]

\* UPDATE submissions SET user_prompt, updated_at WHERE id = submission_id.
update_submission_prompt(s, submission_id, new_prompt) ==
    IF submission_id \notin DOMAIN s
    THEN [ subs |-> s, updated |-> FALSE ]
    ELSE [ subs |-> [ s EXCEPT ![submission_id].user_prompt = new_prompt ],
           updated |-> TRUE ]

\* ---------------------------------------------------------------- state
NoPollResult == [ status |-> "NONE", video_uri |-> None, error |-> None ]

IdleHandler ==
    [ pc |-> "idle", id |-> None, attempts |-> 0, polled |-> None,
      poll_result |-> NoPollResult, resp |-> 0 ]

\* A moderation request: where its handler stands, the id of its path, the
\* endpoint, the JSON body as it was sent ("decision" and, when the moderator
\* gave one, "reason") and the response.
IdleMod ==
    [ pc |-> "idle", id |-> None, kind |-> None, decision |-> None, reason |-> None,
      resp |-> 0 ]

\* The session of a moderator in the moderation UI, before any click:
\* st.session_state (confirmed_rejection, reject_sub_id), the submissions
\* that await a decision, the submission the open dialog was opened for, the
\* rerun that st.rerun() has asked for, and the reject decisions the latest
\* run of the script has sent.
InitialUi ==
    [ pending |-> 1..NumItems, confirmed_rejection |-> FALSE, reject_sub_id |-> 0,
      dialog |-> 0, rerun |-> FALSE, sent |-> <<>> ]

\* A browser session of the standalone app: st.session_state.worker_started,
\* where its script stands, and the locals of the script: the queue it has
\* loaded, the task it is adding, the list it has rendered, the index and
\* the task of the selection.
IdleSession ==
    [ worker_started |-> FALSE, pc |-> "idle", queue |-> << >>, task |-> 0,
      queue_list |-> << >>, idx |-> 0, selected |-> 0 ]

\* A process_queue_worker thread: where it stands, the queue it has loaded,
\* the task it has taken and the status checks it has made.
IdleThread == [ pc |-> "idle", queue |-> << >>, task |-> 0, polls |-> 0 ]

\* The standalone app before its first session: queue.pkl and videos.pkl are
\* empty, no task was created and no thread runs.  "added" and "taken" note
\* the tasks in the order in which add_to_queue saved them and
\* get_next_from_queue returned them.
InitialApp ==
    [ queue |-> << >>, videos |-> << >>, created |-> 0, added |-> << >>,
      taken |-> << >>, threads |-> << >>,
      sessions |-> [ s \in 1..NumSessions |-> IdleSession ] ]

\* The API server has started, the table is empty and n requests are to
\* come; no moderator has clicked and the standalone app has no session.
InitWith(n) ==
    /\ subs = [ i \in {} |-> create_submission(None, None, None) ]
    /\ hnd = [ h \in 1..n |-> IdleHandler ]
    /\ mods = [ m \in 1..n |-> IdleMod ]
    /\ tasks = [ i \in Ids |-> 0 ]
    /\ jobs = [ i \in Ids |-> 0 ]
    /\ hdr = [ r \in 1..n |-> None ]
    /\ ui = InitialUi
    /\ app = InitialApp

Init == InitWith(NumRequests)

InitWide == InitWith(NumRequestsWide)

InitEndToEnd == InitWith(NumRequestsEndToEnd)

\* ---------------------------------------------------------------- submissions.py
\* POST /submissions/: content type and e-mail are validated, the photo is
\* uploaded, then the row is inserted in PENDING_PHOTO_APPROVAL.  The store
\* assigns the id.
CreateSubmission ==
    \E i \in Ids, code \in Codes, prompt \in Prompts, api_key \in ApiKeys :
        /\ i \notin DOMAIN subs
        /\ \A j \in DOMAIN subs : subs[j].submission_code # code
        /\ subs' = [ j \in DOMAIN subs \cup {i} |->
                        IF j = i THEN create_submission(code, PhotoPath(code), prompt)
                        ELSE subs[j] ]
        /\ get_api_key(api_key)
        /\ UNCHANGED <<hnd, mods, tasks, jobs, hdr, ui, app>>

\* gcs.generate_signed_url: a download URL for the blob; None for an empty
\* name and when signing fails.
generate_signed_url(blob_name, sign_ok) ==
    IF blob_name = None \/ ~sign_ok THEN None ELSE "https://storage/signed/" \o blob_name

\* SELECT * FROM submissions WHERE submission_code = code: the ids found.
get_submission_by_code(s, code) ==
    { i \in DOMAIN s : s[i].submission_code = code }

\* GET /submissions/{submission_code}, the status lookup of the end user:
\* 404 when no row has the code; otherwise the row's status with signed URLs
\* of the photo and, whenever generated_video_gcs_path is set, of the video.
get_submission(s, code, sign_ok) ==
    IF get_submission_by_code(s, code) = {}
    THEN [ status_code |-> HTTP_404, status |-> None, photo_url |-> None,
           video_url |-> None, error_message |-> None, comment |-> None ]
    ELSE LET sub == s[CHOOSE i \in get_submission_by_code(s, code) : TRUE]
         IN  [ status_code |-> HTTP_200,
               status |-> sub.status,
               photo_url |-> generate_signed_url(sub.uploaded_photo_gcs_path, sign_ok),
               video_url |-> generate_signed_url(sub.generated_video_gcs_path, sign_ok),
               error_message |-> sub.error_message,
               comment |-> sub.comment ]

\* crud.update_submission_prompt, the prompt edit.
UpdatePrompt ==
    \E i \in Ids, prompt \in EditedPrompts :
        /\ update_submission_prompt(subs, i, prompt).updated
        /\ subs' = update_submission_prompt(subs, i, prompt).subs
        /\ subs' # subs
        /\ UNCHANGED <<hnd, mods, tasks, jobs, hdr, ui, app>>

\* ---------------------------------------------------------------- moderation.py
\* The routes that write: POST /submissions/, the two moderation actions and
\* the Cloud Tasks target POST /generation/{id}.
Endpoints == { "create", "photo", "video", "generation" }

\* Request number r has not arrived yet.
NotArrived(r) == mods[r].pc = "idle" /\ hnd[r].pc = "idle"

\* Request number r is the next to arrive.
NextRequest(r) == NotArrived(r) /\ \A k \in Requests : k < r => ~NotArrived(k)

\* Request number r arrives at one of the endpoints with a header that
\* get_api_key refuses: 403, and nothing of the route runs.
Forbidden(r) ==
    \E endpoint \in Endpoints, api_key \in ApiKeys :
        /\ NextRequest(r)
        /\ ~get_api_key(api_key)
        /\ hdr' = [ hdr EXCEPT ![r] = api_key ]
        /\ mods' = [ mods EXCEPT ![r] = [ @ EXCEPT !.pc = "done", !.resp = HTTP_403 ] ]
        /\ UNCHANGED <<subs, hnd, tasks, jobs, ui, app>>

\* The JSON bodies a moderation request is sent with.
Bodies == [ decision : {"approve", "reject"}, reason : Comments \cup {None} ]

\* schemas.ModerationAction, the model the body is parsed into: its one field
\* is the decision, and any other key of the body is dropped.
ModerationAction(body) == [ decision |-> body.decision ]

\* The request has answered: what stays is which endpoint it was sent to and
\* the response.
ModRespond(r, code) ==
    [ r EXCEPT !.pc = "done", !.resp = code, !.decision = None, !.reason = None ]

\* A check that does not look at the status of the row it found.
ModerationCheck_no_status_check(req, pending, db_ok) ==
    LET submission == get_submission_by_id(subs, req.id)
    IN  IF ~db_ok THEN ModRespond(req, HTTP_500)
        ELSE IF submission.status = None THEN ModRespond(req, HTTP_404)
        ELSE [ req EXCEPT !.pc = "write" ]

\* The check both moderation endpoints make before they write: 500 when the
\* store raises, 404 when the row is missing, 400 when the status is not the
\* pending one; otherwise the request goes on to its update.
ModerationCheck(req, pending, db_ok) ==
    LET submission == get_submission_by_id(subs, req.id)
    IN  IF ~db_ok THEN ModRespond(req, HTTP_500)
        ELSE IF submission.status = None THEN ModRespond(req, HTTP_404)
        ELSE IF submission.status # pending THEN ModRespond(req, HTTP_400)
        ELSE [ req EXCEPT !.pc = "write" ]

\* moderate_photo, lines 85-92: fetch and status check.
ModeratePhotoFetch(m) ==
    \E i \in Ids, body \in Bodies, db_ok \in BOOLEAN, api_key \in ApiKeys :
        /\ NextRequest(m)
        /\ mods' = [ mods EXCEPT ![m] =
              ModerationCheck([ @ EXCEPT !.id = i, !.kind = "photo",
                                         !.decision = body.decision, !.reason = body.reason ],
                              PENDING_PHOTO_APPROVAL, db_ok) ]
        /\ get_api_key(api_key)
        /\ hdr' = [ hdr EXCEPT ![m] = api_key ]
        /\ UNCHANGED <<subs, hnd, tasks, jobs, ui, app>>

\* create_video_generation_task: one more Cloud Task for the id.
create_video_generation_task(t, submission_id) ==
    [ t EXCEPT ![submission_id] = @ + 1 ]

\* An approve that answers 204 although the Cloud Task creation raised.
ModeratePhotoWrite_swallows_enqueue_error(m) ==
    \E db_ok \in BOOLEAN, enqueue_ok \in BOOLEAN :
        LET r == mods[m]
            action == ModerationAction(r)
            new_status == IF action.decision = "approve" THEN PHOTO_APPROVED ELSE PHOTO_REJECTED
            u == update_submission_status(subs, r.id, new_status, None, None, None,
                                          TRUE, FALSE)
        IN  /\ r.pc = "write"
            /\ r.kind = "photo"
            /\ IF ~db_ok
               THEN /\ mods' = [ mods EXCEPT ![m] = ModRespond(@, HTTP_500) ]
                    /\ UNCHANGED <<subs, tasks>>
               ELSE /\ subs' = u.subs
                    /\ IF ~u.updated
                       THEN /\ mods' = [ mods EXCEPT ![m] = ModRespond(@, HTTP_500) ]
                            /\ UNCHANGED tasks
                       ELSE IF action.decision = "approve" /\ enqueue_ok
                       THEN /\ tasks' = create_video_generation_task(tasks, r.id)
                            /\ mods' = [ mods EXCEPT ![m] = ModRespond(@, HTTP_204) ]
                       ELSE /\ UNCHANGED tasks
                            /\ mods' = [ mods EXCEPT ![m] = ModRespond(@, HTTP_204) ]
            /\ UNCHANGED <<hnd, jobs, hdr, ui, app>>

\* moderate_photo, lines 94-123: the update and, after an approve that
\* updated the row, the Cloud Task creation, which may raise.
ModeratePhotoWrite(m) ==
    \E db_ok \in BOOLEAN, enqueue_ok \in BOOLEAN :
        LET r == mods[m]
            action == ModerationAction(r)
            new_status == IF action.decision = "approve" THEN PHOTO_APPROVED ELSE PHOTO_REJECTED
            u == update_submission_status(subs, r.id, new_status, None, None, None,
                                          TRUE, FALSE)
        IN  /\ r.pc = "write"
            /\ r.kind = "photo"
            /\ IF ~db_ok
               THEN /\ mods' = [ mods EXCEPT ![m] = ModRespond(@, HTTP_500) ]
                    /\ UNCHANGED <<subs, tasks>>
               ELSE /\ subs' = u.subs
                    /\ IF ~u.updated
                       THEN /\ mods' = [ mods EXCEPT ![m] = ModRespond(@, HTTP_500) ]
                            /\ UNCHANGED tasks
                       ELSE IF action.decision = "approve" /\ enqueue_ok
                       THEN /\ tasks' = create_video_generation_task(tasks, r.id)
                            /\ mods' = [ mods EXCEPT ![m] = ModRespond(@, HTTP_204) ]
                       ELSE IF action.decision = "approve"
                       THEN /\ UNCHANGED tasks
                            /\ mods' = [ mods EXCEPT ![m] = ModRespond(@, HTTP_500) ]
                       ELSE /\ UNCHANGED tasks
                            /\ mods' = [ mods EXCEPT ![m] = ModRespond(@, HTTP_204) ]
            /\ UNCHANGED <<hnd, jobs, hdr, ui, app>>

\* moderate_video, lines 164-171: fetch and status check.
ModerateVideoFetch(m) ==
    \E i \in Ids, body \in Bodies, db_ok \in BOOLEAN, api_key \in ApiKeys :
        /\ NextRequest(m)
        /\ mods' = [ mods EXCEPT ![m] =
              ModerationCheck([ @ EXCEPT !.id = i, !.kind = "video",
                                         !.decision = body.decision, !.reason = body.reason ],
                              PENDING_VIDEO_APPROVAL, db_ok) ]
        /\ get_api_key(api_key)
        /\ hdr' = [ hdr EXCEPT ![m] = api_key ]
        /\ UNCHANGED <<subs, hnd, tasks, jobs, ui, app>>

\* moderate_video, lines 173-191: the update.
ModerateVideoWrite(m) ==
    \E db_ok \in BOOLEAN :
        LET r == mods[m]
            action == ModerationAction(r)
            new_status == IF action.decision = "approve" THEN VIDEO_APPROVED ELSE VIDEO_REJECTED
            u == update_submission_status(subs, r.id, new_status, None, None, None,
                                          FALSE, TRUE)
        IN  /\ r.pc = "write"
            /\ r.kind = "video"
            /\ IF ~db_ok
               THEN /\ mods' = [ mods EXCEPT ![m] = ModRespond(@, HTTP_500) ]
                    /\ UNCHANGED subs
               ELSE /\ subs' = u.subs
                    /\ mods' = [ mods EXCEPT ![m] =
                          ModRespond(@, IF u.updated THEN HTTP_204 ELSE HTTP_500) ]
            /\ UNCHANGED <<hnd, tasks, jobs, hdr, ui, app>>

\* ---------------------------------------------------------------- generation.py
\* Positions of generate_video after the update to GENERATING_VIDEO.
PastGate == { "initiate", "poll", "result" }

\* The invocation has answered: its locals are gone, the response stays.
Respond(d, code) ==
    [ d EXCEPT !.pc = "done", !.resp = code, !.attempts = 0, !.polled = None,
               !.poll_result = NoPollResult ]

\* A check that also lets a submission through that is already generating.
is_processable_or_generating(current_status) ==
    current_status \in { PHOTO_APPROVED, GENERATING_VIDEO }

\* A check that lets a submission through before its photo was decided on.
is_processable_before_approval(current_status) ==
    current_status \in { PENDING_PHOTO_APPROVAL, PHOTO_APPROVED }

\* A check that lets every submission through whose video is not made yet.
is_processable_any_photo_status(current_status) ==
    current_status \in { PENDING_PHOTO_APPROVAL, PHOTO_REJECTED, PHOTO_APPROVED }

\* generate_video, line 225, the idempotency check: only PHOTO_APPROVED is
\* processed.
is_processable(current_status) == current_status = PHOTO_APPROVED

\* generate_video, line 185: X-CloudTasks-TaskRetryCount, which Cloud Tasks
\* sets on each delivery of the task: the deliveries are numbered from 0 in
\* the order in which they arrive.  The handler only logs it.
RetryCount(h) == Cardinality({ k \in Handlers : k < h /\ hnd[k].pc # "idle" })

\* A fetch step that answers 404 when the row is missing.
GenFetch_not_found_404(h) ==
    \E i \in Ids, db_ok \in BOOLEAN, api_key \in ApiKeys :
        LET submission_record == get_submission_by_id(subs, i)
            d == [ hnd[h] EXCEPT !.id = i ]
        IN  /\ NextRequest(h)
            /\ hnd' = [ hnd EXCEPT ![h] =
                  IF ~db_ok THEN Respond(d, HTTP_503)
                  ELSE IF submission_record.status = None THEN Respond(d, HTTP_404)
                  ELSE IF ~is_processable(submission_record.status)
                       THEN Respond(d, HTTP_200)
                  ELSE [ d EXCEPT !.pc = "claim" ] ]
            /\ get_api_key(api_key)
            /\ hdr' = [ hdr EXCEPT ![h] = api_key ]
            /\ UNCHANGED <<subs, mods, tasks, jobs, ui, app>>

\* generate_video, lines 191-237: a delivery for id i.
\* The row is fetched; 503 when the store raises, 200 when the row is missing
\* or its status is not PHOTO_APPROVED; otherwise the handler goes on.
GenFetch(h) ==
    \E i \in Ids, db_ok \in BOOLEAN, api_key \in ApiKeys :
        LET submission_record == get_submission_by_id(subs, i)
            d == [ hnd[h] EXCEPT !.id = i ]
        IN  /\ NextRequest(h)
            /\ hnd' = [ hnd EXCEPT ![h] =
                  IF ~db_ok THEN Respond(d, HTTP_503)
                  ELSE IF submission_record.status = None THEN Respond(d, HTTP_200)
                  ELSE IF ~is_processable(submission_record.status)
                       THEN Respond(d, HTTP_200)
                  ELSE [ d EXCEPT !.pc = "claim" ] ]
            /\ get_api_key(api_key)
            /\ hdr' = [ hdr EXCEPT ![h] = api_key ]
            /\ UNCHANGED <<subs, mods, tasks, jobs, ui, app>>

\* generate_video, lines 239-246: the unconditional update to
\* GENERATING_VIDEO (its result is not looked at); 503 when the store raises.
GenClaim(h) ==
    \E db_ok \in BOOLEAN :
        LET u == update_submission_status(subs, hnd[h].id, GENERATING_VIDEO,
                                          None, None, None, FALSE, FALSE)
        IN  /\ hnd[h].pc = "claim"
            /\ IF ~db_ok
               THEN /\ hnd' = [ hnd EXCEPT ![h] = Respond(@, HTTP_503) ]
                    /\ UNCHANGED subs
               ELSE /\ subs' = u.subs
                    /\ hnd' = [ hnd EXCEPT ![h].pc = "initiate" ]
            /\ UNCHANGED <<mods, tasks, jobs, hdr, ui, app>>

\* Except blocks whose update reaches the store: GENERATION_FAILED and the
\* error text are written before the handler answers.
generate_video_except_writes(s, submission_id, kind) ==
    [ subs |-> update_submission_status(s, submission_id, GENERATION_FAILED, None, None,
                                        ExceptionDetail, FALSE, FALSE).subs,
      resp |-> IF kind \in {"HTTPStatusError", "RequestError"} THEN HTTP_503 ELSE HTTP_500 ]

\* The except blocks of generate_video, lines 315-375.  Each calls
\* crud.update_submission_status(..., GENERATION_FAILED, error_message=...,
\* veo2_job_id=...); update_submission_status has no veo2_job_id parameter,
\* so the call raises TypeError before any statement reaches the store, the
\* inner "except Exception" logs it, and the handler answers 503 (HTTP status
\* or request error) or 500 (anything else).  The table is returned unchanged.
generate_video_except(s, submission_id, kind) ==
    [ subs |-> s,
      resp |-> IF kind \in {"HTTPStatusError", "RequestError"} THEN HTTP_503 ELSE HTTP_500 ]

\* generate_video, line 254 with initiate_veo2_job: the job is submitted to
\* the provider; the call returns a job id or raises.
GenInitiate(h) ==
    \E outcome \in {"ok", "HTTPStatusError", "RequestError", "Exception"} :
        LET i == hnd[h].id
            x == generate_video_except(subs, i, outcome)
        IN  /\ hnd[h].pc = "initiate"
            /\ jobs' = [ jobs EXCEPT ![i] = @ + 1 ]
            /\ IF outcome = "ok"
               THEN /\ hnd' = [ hnd EXCEPT ![h].pc = "poll", ![h].attempts = 0 ]
                    /\ UNCHANGED subs
               ELSE /\ subs' = x.subs
                    /\ hnd' = [ hnd EXCEPT ![h] = Respond(@, x.resp) ]
            /\ UNCHANGED <<mods, tasks, hdr, ui, app>>

\* What one status request to the provider can bring back: a job status with
\* its fields, an unknown status, or an exception of the HTTP client.
PollAnswers(h) ==
    [ status : {"RUNNING", "PENDING", "UNKNOWN"},
      output_video_uri : {None}, error_message : {None} ]
    \cup [ status : {"EXCEPTION"}, output_video_uri : {None},
           error_message : {ExceptionDetail} ]
    \cup [ status : {"SUCCEEDED"}, output_video_uri : {VideoUri(h), None, ""},
           error_message : {None} ]
    \cup [ status : {"FAILED"}, output_video_uri : {None},
           error_message : ProviderErrors ]

\* "not video_uri": the key is missing from the answer, or its value is the
\* empty string.
IsEmpty(value) == value \in { None, "" }

\* A loop that returns SUCCEEDED with whatever the answer has as its URI.
poll_veo2_job_trusts_succeeded(data, attempts) ==
    IF data.status = "SUCCEEDED"
    THEN [ status |-> "SUCCEEDED", video_uri |-> data.output_video_uri, error |-> None ]
    ELSE IF data.status = "FAILED"
    THEN [ status |-> "FAILED", video_uri |-> None, error |-> data.error_message ]
    ELSE IF attempts >= MaxPollingAttempts
    THEN [ status |-> "FAILED", video_uri |-> None, error |-> TimeoutError ]
    ELSE NoPollResult

\* A loop without the time-out result after its last attempt.
poll_veo2_job_no_timeout(data, attempts) ==
    IF data.status = "SUCCEEDED"
    THEN IF IsEmpty(data.output_video_uri)
         THEN [ status |-> "FAILED", video_uri |-> None, error |-> MissingUriError ]
         ELSE [ status |-> "SUCCEEDED", video_uri |-> data.output_video_uri, error |-> None ]
    ELSE IF data.status = "FAILED"
    THEN [ status |-> "FAILED", video_uri |-> None, error |-> data.error_message ]
    ELSE NoPollResult

\* A loop that returns a failure as soon as a status request raises.
poll_veo2_job_exception_fails(data, attempts) ==
    IF data.status = "SUCCEEDED"
    THEN IF IsEmpty(data.output_video_uri)
         THEN [ status |-> "FAILED", video_uri |-> None, error |-> MissingUriError ]
         ELSE [ status |-> "SUCCEEDED", video_uri |-> data.output_video_uri, error |-> None ]
    ELSE IF data.status \in {"FAILED", "EXCEPTION"}
    THEN [ status |-> "FAILED", video_uri |-> None, error |-> data.error_message ]
    ELSE IF attempts >= MaxPollingAttempts
    THEN [ status |-> "FAILED", video_uri |-> None, error |-> TimeoutError ]
    ELSE NoPollResult

\* poll_veo2_job, lines 96-173: what the answer to poll number "attempts"
\* makes of the loop.  SUCCEEDED with a URI and FAILED end it; every other
\* answer, exceptions included, sleeps and polls again, and after the last
\* attempt the loop falls through to the time-out result.  A result with
\* status "NONE" means the loop goes on.
poll_veo2_job(data, attempts) ==
    IF data.status = "SUCCEEDED"
    THEN IF IsEmpty(data.output_video_uri)
         THEN [ status |-> "FAILED", video_uri |-> None, error |-> MissingUriError ]
         ELSE [ status |-> "SUCCEEDED", video_uri |-> data.output_video_uri, error |-> None ]
    ELSE IF data.status = "FAILED"
    THEN [ status |-> "FAILED", video_uri |-> None, error |-> data.error_message ]
    ELSE IF attempts >= MaxPollingAttempts
    THEN [ status |-> "FAILED", video_uri |-> None, error |-> TimeoutError ]
    ELSE NoPollResult

\* poll_veo2_job, one iteration of the while loop; the loop counter is gone
\* once the function has returned its result.  "polled" notes what the
\* latest status request brought back.
GenPoll(h) ==
    \E data \in PollAnswers(h) :
        LET n == hnd[h].attempts + 1
            res == poll_veo2_job(data, n)
        IN  /\ hnd[h].pc = "poll"
            /\ hnd[h].attempts < MaxPollingAttempts
            /\ hnd' = [ hnd EXCEPT
                  ![h].attempts = IF res.status = "NONE" THEN n ELSE 0,
                  ![h].poll_result = res,
                  ![h].polled = data.status,
                  ![h].pc = IF res.status = "NONE" THEN "poll" ELSE "result" ]
            /\ UNCHANGED <<subs, mods, tasks, jobs, hdr, ui, app>>

\* A success write that leaves the video path out.
handle_result_without_video_path(s, submission_id, poll_result, retry) ==
    IF poll_result.status = "SUCCEEDED"
    THEN [ subs |-> update_submission_status(s, submission_id, PENDING_VIDEO_APPROVAL,
                        None, None, None, FALSE, FALSE).subs,
           resp |-> HTTP_200 ]
    ELSE [ subs |-> update_submission_status(s, submission_id, GENERATION_FAILED,
                        None, None, poll_result.error, FALSE, FALSE).subs,
           resp |-> HTTP_200 ]

\* generate_video, lines 276-313: the write for a poll result and the
\* response.  SUCCEEDED writes PENDING_VIDEO_APPROVAL with the video path;
\* anything else writes GENERATION_FAILED with the error; both answer 200,
\* whatever the retry count of the delivery.
handle_result(s, submission_id, poll_result, retry) ==
    IF poll_result.status = "SUCCEEDED"
    THEN [ subs |-> update_submission_status(s, submission_id, PENDING_VIDEO_APPROVAL,
                        None, poll_result.video_uri, None, FALSE, FALSE).subs,
           resp |-> HTTP_200 ]
    ELSE [ subs |-> update_submission_status(s, submission_id, GENERATION_FAILED,
                        None, None, poll_result.error, FALSE, FALSE).subs,
           resp |-> HTTP_200 ]

\* generate_video, lines 275-313 and 357-375: the result is written; when
\* the store raises, the generic except block answers 500.
GenHandleResult(h) ==
    \E db_ok \in BOOLEAN :
        LET i == hnd[h].id
            r == handle_result(subs, i, hnd[h].poll_result, RetryCount(h))
            x == generate_video_except(subs, i, "Exception")
        IN  /\ hnd[h].pc = "result"
            /\ IF db_ok
               THEN /\ subs' = r.subs
                    /\ hnd' = [ hnd EXCEPT ![h] = Respond(@, r.resp) ]
               ELSE /\ subs' = x.subs
                    /\ hnd' = [ hnd EXCEPT ![h] = Respond(@, x.resp) ]
            /\ UNCHANGED <<mods, tasks, jobs, hdr, ui, app>>

\* generate_video, lines 248-275: the invocation is cut off (the request
\* time-out of the caller, or a crash of the instance) while it waits for the
\* provider after its update to GENERATING_VIDEO: no except block runs, no
\* result is written and no response is sent.
Cutoff(h) ==
    /\ hnd[h].pc \in PastGate
    /\ hnd' = [ hnd EXCEPT ![h] = [ Respond(@, 0) EXCEPT !.pc = "cut" ] ]
    /\ UNCHANGED <<subs, mods, tasks, jobs, hdr, ui, app>>

\* ---------------------------------------------------------------- specification
Next ==
    \/ CreateSubmission
    \/ \E m \in Mods : ModeratePhotoFetch(m)
    \/ \E m \in Mods : ModeratePhotoWrite(m)
    \/ \E m \in Mods : ModerateVideoFetch(m)
    \/ \E m \in Mods : ModerateVideoWrite(m)
    \/ \E h \in Handlers : GenFetch(h)
    \/ \E h \in Handlers : GenClaim(h)
    \/ \E h \in Handlers : GenInitiate(h)
    \/ \E h \in Handlers : GenPoll(h)
    \/ \E h \in Handlers : GenHandleResult(h)

Spec == Init /\ [][Next]_vars

\* crud.update_submission_prompt has no caller among the routers; the
\* specification with prompt edits adds it to the requests of the API.
NextWithPromptEdit == Next \/ UpdatePrompt

SpecWithPromptEdit == Init /\ [][NextWithPromptEdit]_vars

\* The requests of Next carry the key; the specification with refused
\* requests adds those that do not.
NextWithApiKey == Next \/ \E r \in Requests : Forbidden(r)

SpecWithApiKey == Init /\ [][NextWithApiKey]_vars

\* ---- the end-to-end run
\* The run "create, approve the photo, one delivery with a provider that
\* succeeds at once, approve the video": the steps are those of the handlers
\* above with the store, the queue and the provider answering well, each of
\* the three requests made once.  Around them the server may refuse other
\* requests, as many as the run has requests to spare.
ApprovePhotoArrives(m) ==
    /\ \A k \in Mods : mods[k].pc # "write"
    /\ ModeratePhotoFetch(m)
    /\ mods'[m].pc = "write" /\ mods'[m].decision = "approve"

ApprovePhotoWritten(m) == ModeratePhotoWrite(m) /\ mods'[m].resp = HTTP_204

DeliveryArrives(h) ==
    /\ \A k \in Handlers : hnd[k].pc = "idle"
    /\ GenFetch(h)
    /\ hnd'[h].pc = "claim"

DeliveryClaims(h) == GenClaim(h) /\ hnd'[h].pc = "initiate"

DeliveryInitiates(h) == GenInitiate(h) /\ hnd'[h].pc = "poll"

DeliveryPollsSucceeded(h) == GenPoll(h) /\ hnd'[h].poll_result.status = "SUCCEEDED"

DeliveryWritesResult(h) == GenHandleResult(h) /\ hnd'[h].resp = HTTP_200

ApproveVideoArrives(m) ==
    /\ \A k \in Mods : mods[k].pc # "write"
    /\ ModerateVideoFetch(m)
    /\ mods'[m].pc = "write" /\ mods'[m].decision = "approve"

ApproveVideoWritten(m) == ModerateVideoWrite(m) /\ mods'[m].resp = HTTP_204

\* The requests of the run that the server refused: 400 or 403.
Refused == { r \in Requests : mods[r].resp \in { HTTP_400, HTTP_403 } }

\* Request number r is refused: its key is wrong, or the submission is not
\* waiting for the decision it brings.
RefusedRequest(r) ==
    /\ Cardinality(Refused) < NumRequestsEndToEnd - 3
    /\ \/ Forbidden(r)
       \/ ModeratePhotoFetch(r) /\ mods'[r].resp = HTTP_400
       \/ ModerateVideoFetch(r) /\ mods'[r].resp = HTTP_400

EndToEndStep ==
    \/ CreateSubmission
    \/ \E m \in Mods : ApprovePhotoArrives(m)
    \/ \E m \in Mods : ApprovePhotoWritten(m)
    \/ \E h \in Handlers : DeliveryArrives(h)
    \/ \E h \in Handlers : DeliveryClaims(h)
    \/ \E h \in Handlers : DeliveryInitiates(h)
    \/ \E h \in Handlers : DeliveryPollsSucceeded(h)
    \/ \E h \in Handlers : DeliveryWritesResult(h)
    \/ \E m \in Mods : ApproveVideoArrives(m)
    \/ \E m \in Mods : ApproveVideoWritten(m)

NextEndToEnd == EndToEndStep \/ \E r \in Requests : RefusedRequest(r)

\* Fair scheduling: the event loop runs every handler that can go on, and
\* the requests of the run are made.
SpecEndToEnd == InitEndToEnd /\ [][NextEndToEnd]_vars /\ WF_vars(EndToEndStep)

\* The server with invocations that are cut off.
NextWithCutoff == Next \/ \E h \in Handlers : Cutoff(h)

SpecWithCutoff == Init /\ [][NextWithCutoff]_vars

\* ---- database.py, the connection pool
\* get_db: a route with "conn = Depends(database.get_db)" acquires a
\* connection of the pool before its handler starts and releases it in the
\* "finally" that runs after the handler has returned or raised.  The
\* requests that hold a connection are therefore the requests in flight.
Holding ==
    { r \in Requests : mods[r].pc = "write" \/ hnd[r].pc \in { "claim" } \cup PastGate }

\* pool.acquire() of get_db_connection returns at once only while fewer than
\* max_size connections are out; otherwise the request waits.
CanAcquire == Cardinality(Holding) < PoolMaxSize

\* The server with its pool: a request starts when it has its connection.
NextWithPool ==
    \/ CanAcquire /\ CreateSubmission
    \/ \E m \in Mods : CanAcquire /\ ModeratePhotoFetch(m)
    \/ \E m \in Mods : ModeratePhotoWrite(m)
    \/ \E m \in Mods : CanAcquire /\ ModerateVideoFetch(m)
    \/ \E m \in Mods : ModerateVideoWrite(m)
    \/ \E h \in Handlers : CanAcquire /\ GenFetch(h)
    \/ \E h \in Handlers : GenClaim(h)
    \/ \E h \in Handlers : GenInitiate(h)
    \/ \E h \in Handlers : GenPoll(h)
    \/ \E h \in Handlers : GenHandleResult(h)

SpecWithPool == Init /\ [][NextWithPool]_vars

\* ---- crud.update_submission_status on its own
\* Arguments for each parameter of update_submission_status.
UpdateArguments ==
    [ new_status : SubmissionStatusEnum,
      comment : { None } \cup Comments,
      video_gcs_path : { None, VideoUri(1) },
      error_message : { None } \cup ProviderErrors,
      set_photo_moderated : BOOLEAN,
      set_video_moderated : BOOLEAN ]

\* update_submission_status called with the arguments a.
Updated(s, i, a) ==
    update_submission_status(s, i, a.new_status, a.comment, a.video_gcs_path,
                             a.error_message, a.set_photo_moderated, a.set_video_moderated)

\* Every id has its row, as create_submission left it.
InitUpdateStatus ==
    /\ subs \in [ Ids -> { create_submission(code, PhotoPath(code), prompt) :
                              code \in Codes, prompt \in Prompts } ]
    /\ hnd = [ h \in 1..1 |-> IdleHandler ]
    /\ mods = [ m \in 1..1 |-> IdleMod ]
    /\ tasks = [ i \in Ids |-> 0 ]
    /\ jobs = [ i \in Ids |-> 0 ]
    /\ hdr = [ r \in 1..1 |-> None ]
    /\ ui = InitialUi
    /\ app = InitialApp

UpdateStatus ==
    \E i \in Ids, a \in UpdateArguments :
        /\ Updated(subs, i, a).updated
        /\ subs' = Updated(subs, i, a).subs
        /\ UNCHANGED <<hnd, mods, tasks, jobs, hdr, ui, app>>

SpecUpdateStatus == InitUpdateStatus /\ [][UpdateStatus]_vars

\* The same server taking one more request: the runs in which a decision on
\* a generated video races another request have four requests.
SpecWide == InitWide /\ [][Next]_vars

\* ---------------------------------------------------------------- main.py
\* The Pub/Sub worker: process_submission runs once for each message that
\* names a submission id.  It shares the table with the API; its invocations
\* take the request slots of the run.
\* The statements of the try block that can raise into "except Exception as
\* e": the fetch, the update to GENERATING_VIDEO, the submit and the write
\* of the result.
WorkerExceptions == { "fetch", "claim", "initiate", "result" }

\* f"Worker exception: {str(e)}"
WorkerError(e) == "Worker exception: " \o e

\* The locals of an invocation: where it stands, submission_id, the loop
\* counter and result of the polling, and the exception e of the except
\* block.
Worker(pc, id, e) ==
    [ pc |-> pc, id |-> id, attempts |-> 0, polled |-> None,
      poll_result |-> NoPollResult, resp |-> 0, e |-> e ]

\* process_submission, lines 121-136: the connection is taken and the row
\* fetched.  When the pool gives no connection the except block finds conn
\* unset and does nothing; when the fetch raises, the except block runs with
\* the connection; a missing row or a status other than PHOTO_APPROVED
\* returns.
ProcessFetch(h) ==
    \E i \in Ids, conn_ok \in BOOLEAN, db_ok \in BOOLEAN :
        LET submission_record == get_submission_by_id(subs, i)
        IN  /\ NextRequest(h)
            /\ hnd' = [ hnd EXCEPT ![h] =
                  IF ~conn_ok THEN Worker("done", i, None)
                  ELSE IF ~db_ok THEN Worker("except", i, "fetch")
                  ELSE IF submission_record.status = None THEN Worker("done", i, None)
                  ELSE IF ~is_processable(submission_record.status)
                       THEN Worker("done", i, None)
                  ELSE Worker("claim", i, None) ]
            /\ UNCHANGED <<subs, mods, tasks, jobs, hdr, ui, app>>

\* process_submission, line 143: the update to GENERATING_VIDEO.
ProcessClaim(h) ==
    \E db_ok \in BOOLEAN :
        LET u == update_submission_status(subs, hnd[h].id, GENERATING_VIDEO,
                                          None, None, None, FALSE, FALSE)
        IN  /\ hnd[h].pc = "claim"
            /\ IF ~db_ok
               THEN /\ hnd' = [ hnd EXCEPT ![h] = Worker("except", @.id, "claim") ]
                    /\ UNCHANGED subs
               ELSE /\ subs' = u.subs
                    /\ hnd' = [ hnd EXCEPT ![h].pc = "initiate" ]
            /\ UNCHANGED <<mods, tasks, jobs, hdr, ui, app>>

\* process_submission, line 148: the job is submitted, or the call raises.
ProcessInitiate(h) ==
    \E ok \in BOOLEAN :
        /\ hnd[h].pc = "initiate"
        /\ jobs' = [ jobs EXCEPT ![hnd[h].id] = @ + 1 ]
        /\ hnd' = [ hnd EXCEPT ![h] =
              IF ok THEN [ @ EXCEPT !.pc = "poll" ] ELSE Worker("except", @.id, "initiate") ]
        /\ UNCHANGED <<subs, mods, tasks, hdr, ui, app>>

\* poll_veo2_job of main.py, lines 65-110: as the loop of generation.py,
\* but SUCCEEDED without a URI raises ValueError inside the try of the loop,
\* which the loop's "except Exception" logs before it sleeps and polls again.
worker_poll_veo2_job(data, attempts) ==
    IF data.status = "SUCCEEDED" /\ ~IsEmpty(data.output_video_uri)
    THEN [ status |-> "SUCCEEDED", video_uri |-> data.output_video_uri, error |-> None ]
    ELSE IF data.status = "FAILED"
    THEN [ status |-> "FAILED", video_uri |-> None, error |-> data.error_message ]
    ELSE IF attempts >= MaxPollingAttempts
    THEN [ status |-> "FAILED", video_uri |-> None, error |-> TimeoutError ]
    ELSE NoPollResult

\* One iteration of the polling loop of the worker.
ProcessPoll(h) ==
    \E data \in PollAnswers(h) :
        LET n == hnd[h].attempts + 1
            res == worker_poll_veo2_job(data, n)
        IN  /\ hnd[h].pc = "poll"
            /\ hnd[h].attempts < MaxPollingAttempts
            /\ hnd' = [ hnd EXCEPT
                  ![h].attempts = IF res.status = "NONE" THEN n ELSE 0,
                  ![h].poll_result = res,
                  ![h].polled = data.status,
                  ![h].pc = IF res.status = "NONE" THEN "poll" ELSE "result" ]
            /\ UNCHANGED <<subs, mods, tasks, jobs, hdr, ui, app>>

\* process_submission, lines 154-174: the write of the result, the same two
\* updates as in generate_video; when the store raises, the except block runs.
ProcessHandleResult(h) ==
    \E db_ok \in BOOLEAN :
        LET i == hnd[h].id
            r == handle_result(subs, i, hnd[h].poll_result, 0)
        IN  /\ hnd[h].pc = "result"
            /\ IF db_ok
               THEN /\ subs' = r.subs
                    /\ hnd' = [ hnd EXCEPT ![h] = Worker("done", i, None) ]
               ELSE /\ UNCHANGED subs
                    /\ hnd' = [ hnd EXCEPT ![h] = Worker("except", i, "result") ]
            /\ UNCHANGED <<mods, tasks, jobs, hdr, ui, app>>

\* The statuses the except block does not overwrite.
WorkerKept == { PENDING_VIDEO_APPROVAL, VIDEO_APPROVED, VIDEO_REJECTED }

\* process_submission, lines 179-187 and 195-201: the except block fetches
\* the row again; it goes on to its update when the row exists and its
\* status is not one of the three it keeps, whatever raised the exception.
ProcessExceptFetch(h) ==
    \E db_ok \in BOOLEAN :
        LET current_sub == get_submission_by_id(subs, hnd[h].id)
        IN  /\ hnd[h].pc = "except"
            /\ hnd' = [ hnd EXCEPT ![h] =
                  IF ~db_ok THEN Worker("done", @.id, None)
                  ELSE IF current_sub.status = None \/ current_sub.status \in WorkerKept
                       THEN Worker("done", @.id, None)
                  ELSE [ @ EXCEPT !.pc = "except_write" ] ]
            /\ UNCHANGED <<subs, mods, tasks, jobs, hdr, ui, app>>

\* process_submission, lines 188-194: the update to GENERATION_FAILED with
\* the text of the exception.
ProcessExceptWrite(h) ==
    \E db_ok \in BOOLEAN :
        LET u == update_submission_status(subs, hnd[h].id, GENERATION_FAILED,
                                          None, None, WorkerError(hnd[h].e), FALSE, FALSE)
        IN  /\ hnd[h].pc = "except_write"
            /\ subs' = IF db_ok THEN u.subs ELSE subs
            /\ hnd' = [ hnd EXCEPT ![h] = Worker("done", @.id, None) ]
            /\ UNCHANGED <<mods, tasks, jobs, hdr, ui, app>>

\* The moderation API and the worker on one table.
NextWorker ==
    \/ CreateSubmission
    \/ \E m \in Mods : ModeratePhotoFetch(m)
    \/ \E m \in Mods : ModeratePhotoWrite(m)
    \/ \E m \in Mods : ModerateVideoFetch(m)
    \/ \E m \in Mods : ModerateVideoWrite(m)
    \/ \E h \in Handlers : ProcessFetch(h)
    \/ \E h \in Handlers : ProcessClaim(h)
    \/ \E h \in Handlers : ProcessInitiate(h)
    \/ \E h \in Handlers : ProcessPoll(h)
    \/ \E h \in Handlers : ProcessHandleResult(h)
    \/ \E h \in Handlers : ProcessExceptFetch(h)
    \/ \E h \in Handlers : ProcessExceptWrite(h)

SpecWorker == Init /\ [][NextWorker]_vars

\* ---------------------------------------------------------------- streamlit_moderation
\* One session of a moderator.  Every click reruns the script from the top
\* with the session state kept; a button is "clicked" only in the run its
\* click started; st.rerun() ends the run and starts another one.  The
\* submissions of the list are numbered in the order of the list, and the
\* backend answers each decision with success (204) or not.

\* get_pending_items / get_submissions_by_status: the submissions that
\* await a decision, in the order of the list.
get_pending_items(pending) ==
    [ k \in 1..Cardinality(pending) |->
        CHOOSE x \in pending : Cardinality({ y \in pending : y < x }) = k - 1 ]

\* moderate_item(item_type, sub_id, "reject") from session u: the request is
\* sent; on 204 the submission has left the list.
moderate_item(u, sub_id, ok) ==
    [ u EXCEPT !.sent = Append(@, sub_id),
               !.pending = IF ok[sub_id] THEN @ \ { sub_id } ELSE @ ]

\* app.py, render_moderation_page, lines 121-197: the display loop without a
\* click on a list button.  For each item in turn, when confirmed_rejection
\* is set the reject is sent for that item; after a success the flag is
\* deleted and st.rerun() ends the run; after a failure the flag stays and
\* the loop goes on with the next item.
RECURSIVE render_moderation_page(_, _, _)
render_moderation_page(pending_items, u, ok) ==
    IF pending_items = << >> THEN u
    ELSE LET sub_id == Head(pending_items)
         IN  IF u.confirmed_rejection
             THEN IF ok[sub_id]
                  THEN [ moderate_item(u, sub_id, ok) EXCEPT
                            !.confirmed_rejection = FALSE, !.rerun = TRUE ]
                  ELSE render_moderation_page(Tail(pending_items),
                                              moderate_item(u, sub_id, ok), ok)
             ELSE render_moderation_page(Tail(pending_items), u, ok)

\* utils.py, display_submission_item, lines 282-299: the check under the
\* reject button of one item.  The reject is sent when confirmed_rejection
\* is set and reject_sub_id is this item; both are reset after the call,
\* and st.rerun() follows a success.
display_submission_item(sub_id, u, ok) ==
    IF u.confirmed_rejection /\ u.reject_sub_id = sub_id
    THEN [ moderate_item(u, sub_id, ok) EXCEPT
              !.confirmed_rejection = FALSE, !.reject_sub_id = 0,
              !.rerun = ok[sub_id] ]
    ELSE u

\* pages/1_Pending_Approvals.py, lines 54-55: the loop over the list, which
\* st.rerun() ends.
RECURSIVE pending_approvals(_, _, _)
pending_approvals(pending_items, u, ok) ==
    IF pending_items = << >> THEN u
    ELSE LET shown == display_submission_item(Head(pending_items), u, ok)
         IN  IF shown.rerun THEN shown
             ELSE pending_approvals(Tail(pending_items), shown, ok)

\* One run of the script of the given UI, the single script app.py or the
\* pages built on utils.py, from session u.
RunScript(page, u, ok) ==
    LET start == [ u EXCEPT !.sent = << >>, !.rerun = FALSE ]
    IN  IF page = "app.py"
        THEN render_moderation_page(get_pending_items(u.pending), start, ok)
        ELSE pending_approvals(get_pending_items(u.pending), start, ok)

\* The moderator clicks the reject button of an item of the list: the run
\* that follows opens the dialog for it, unless st.rerun() ended the run
\* before (the run that st.rerun() starts finds the flag unset and sends
\* nothing).
ClickReject(page) ==
    \E sub_id \in ui.pending, ok \in [ 1..NumItems -> BOOLEAN ] :
        LET ran == RunScript(page, ui, ok)
        IN  /\ ui.dialog = 0 /\ ~ui.rerun
            /\ ui' = [ ran EXCEPT !.dialog = IF ran.rerun THEN 0 ELSE sub_id,
                                  !.rerun = FALSE ]
            /\ UNCHANGED <<subs, hnd, mods, tasks, jobs, hdr, app>>

\* confirm_rejection_dialog, "Yes, Confirm Rejection": the flag is set, in
\* utils.py together with the id (lines 209-212), in app.py alone (lines
\* 82-84); st.rerun() asks for a run of the script.
ConfirmRejection(page) ==
    /\ ui.dialog # 0 /\ ~ui.rerun
    /\ ui' = [ ui EXCEPT !.confirmed_rejection = TRUE,
                         !.reject_sub_id = IF page = "pages" THEN ui.dialog ELSE @,
                         !.rerun = TRUE, !.sent = << >> ]
    /\ UNCHANGED <<subs, hnd, mods, tasks, jobs, hdr, app>>

\* confirm_rejection_dialog, "Cancel".
CancelRejection(page) ==
    /\ ui.dialog # 0 /\ ~ui.rerun
    /\ ui' = [ ui EXCEPT !.confirmed_rejection = FALSE, !.reject_sub_id = 0,
                         !.rerun = TRUE, !.sent = << >> ]
    /\ UNCHANGED <<subs, hnd, mods, tasks, jobs, hdr, app>>

\* The run that st.rerun() of the dialog asked for: the dialog is closed and
\* the script runs with no button clicked.
Rerun(page) ==
    \E ok \in [ 1..NumItems -> BOOLEAN ] :
        /\ ui.rerun
        /\ ui' = [ RunScript(page, ui, ok) EXCEPT !.dialog = 0, !.rerun = FALSE ]
        /\ UNCHANGED <<subs, hnd, mods, tasks, jobs, hdr, app>>

\* Any other interaction (the task radio, the refresh button) runs the
\* script again.
Refresh(page) ==
    \E ok \in [ 1..NumItems -> BOOLEAN ] :
        /\ ui.dialog = 0 /\ ~ui.rerun
        /\ ui' = [ RunScript(page, ui, ok) EXCEPT !.rerun = FALSE ]
        /\ UNCHANGED <<subs, hnd, mods, tasks, jobs, hdr, app>>

\* Another moderator decides on a submission of the list.
DecidedElsewhere ==
    \E sub_id \in ui.pending :
        /\ ui' = [ ui EXCEPT !.pending = @ \ { sub_id }, !.sent = << >> ]
        /\ UNCHANGED <<subs, hnd, mods, tasks, jobs, hdr, app>>

NextModeration(page) ==
    \/ ClickReject(page)
    \/ ConfirmRejection(page)
    \/ CancelRejection(page)
    \/ Rerun(page)
    \/ Refresh(page)
    \/ DecidedElsewhere

NextModerationApp == NextModeration("app.py")

NextModerationPages == NextModeration("pages")

SpecModerationApp == Init /\ [][NextModerationApp]_vars

SpecModerationPages == Init /\ [][NextModerationPages]_vars

\* ---------------------------------------------------------------- app.py
\* The standalone app: Streamlit sessions and process_queue_worker threads
\* of one process share queue.pkl and videos.pkl.  No lock is taken, so each
\* read of a file and each write of a file is a step of its own.

\* main, lines 333-335: the worker is started when this session's
\* st.session_state has no 'worker_started'.
main(a, s) ==
    IF a.sessions[s].worker_started THEN a
    ELSE [ a EXCEPT !.threads = Append(@, IdleThread),
                    !.sessions[s].worker_started = TRUE ]

\* add_video_to_db: the record is appended to videos.pkl.
add_video_to_db(a, id, status) ==
    [ a EXCEPT !.videos = Append(@, [ id |-> id, status |-> status ]) ]

\* A script that is not in the middle of a queue operation: the session can
\* start its next run.
CanRun(s) == app.sessions[s].pc \in { "idle", "shown" }

\* generate_video_page, lines 420-429 with add_to_queue, line 251: a run of
\* the script creates a task and loads the queue to append it.
GenerateVideoPage(s) ==
    LET a == main(app, s)
    IN  /\ CanRun(s)
        /\ app.created < NumTasks
        /\ app' = [ a EXCEPT !.created = @ + 1,
                             !.sessions[s] = [ @ EXCEPT !.pc = "add", !.queue = a.queue,
                                                        !.task = a.created + 1,
                                                        !.queue_list = << >> ] ]
        /\ UNCHANGED <<subs, hnd, mods, tasks, jobs, hdr, ui>>

\* add_to_queue, lines 252-253: the task is appended to the loaded queue and
\* the queue is saved.
AddToQueue(s) ==
    LET me == app.sessions[s]
    IN  /\ me.pc = "add"
        /\ app' = [ app EXCEPT !.queue = Append(me.queue, me.task),
                               !.added = Append(@, me.task),
                               !.sessions[s] = [ @ EXCEPT !.pc = "idle", !.queue = << >>,
                                                          !.task = 0 ] ]
        /\ UNCHANGED <<subs, hnd, mods, tasks, jobs, hdr, ui>>

\* queue_status_page, lines 617-701: a run of the script loads the queue and
\* renders it with the selection list of the cancel options.
QueueStatusPage(s) ==
    LET a == main(app, s)
    IN  /\ CanRun(s)
        /\ a.queue # << >>
        /\ app' = [ a EXCEPT !.sessions[s] = [ @ EXCEPT !.pc = "shown",
                                                        !.queue_list = a.queue ] ]
        /\ UNCHANGED <<subs, hnd, mods, tasks, jobs, hdr, ui>>

\* queue_status_page, lines 703-710: the user has selected the entry at
\* position sel of the rendered list and clicks "Cancel Selected Task".  The
\* run of the click loads the queue; with an empty queue the page has no
\* cancel options.  The entries of the list are labelled by position and
\* description; the tasks here have the same description, so the selected
\* label is still an entry when the queue is long enough, and the selection
\* falls back to the first entry when it is not.
CancelSelectedTask(s) ==
    \E sel \in 1..Len(app.sessions[s].queue_list) :
        LET a == main(app, s)
            queue == a.queue
            idx == IF sel <= Len(queue) THEN sel - 1 ELSE 0
        IN  /\ app.sessions[s].pc = "shown"
            /\ app' = [ a EXCEPT !.sessions[s] =
                  IF queue = << >>
                  THEN [ @ EXCEPT !.pc = "idle", !.queue_list = << >> ]
                  ELSE [ @ EXCEPT !.pc = "cancel", !.queue = queue, !.idx = idx,
                                  !.selected = app.sessions[s].queue_list[sel],
                                  !.queue_list = << >> ] ]
            /\ UNCHANGED <<subs, hnd, mods, tasks, jobs, hdr, ui>>

\* The list without its entry at index idx (from 0).
pop(queue_list, idx) ==
    [ k \in 1..(Len(queue_list) - 1) |->
        IF k <= idx THEN queue_list[k] ELSE queue_list[k + 1] ]

\* queue_status_page, lines 711-731: the entry at idx is taken out of the
\* loaded queue, the queue is saved and the task is recorded as cancelled.
CancelSave(s) ==
    LET me == app.sessions[s]
        cancelled_task == me.queue[me.idx + 1]
    IN  /\ me.pc = "cancel"
        /\ app' = [ add_video_to_db(app, cancelled_task, "cancelled") EXCEPT
                        !.queue = pop(me.queue, me.idx),
                        !.sessions[s] = [ @ EXCEPT !.pc = "idle", !.queue = << >>,
                                                   !.idx = 0, !.selected = 0 ] ]
        /\ UNCHANGED <<subs, hnd, mods, tasks, jobs, hdr, ui>>

\* The threads that run process_queue_worker.
Threads == DOMAIN app.threads

\* get_next_from_queue, lines 256-257: the worker loads the queue; an empty
\* queue sends it back to sleep.
GetNextLoad(w) ==
    /\ app.threads[w].pc = "idle"
    /\ app.queue # << >>
    /\ app' = [ app EXCEPT !.threads[w] = [ @ EXCEPT !.pc = "pop", !.queue = app.queue ] ]
    /\ UNCHANGED <<subs, hnd, mods, tasks, jobs, hdr, ui>>

\* get_next_from_queue, lines 258-260: popleft, save, return the task.
GetNextSave(w) ==
    LET me == app.threads[w]
    IN  /\ me.pc = "pop"
        /\ app' = [ app EXCEPT !.queue = Tail(me.queue),
                               !.taken = Append(@, Head(me.queue)),
                               !.threads[w] = [ @ EXCEPT !.pc = "generate", !.queue = << >>,
                                                         !.task = Head(me.queue) ] ]
        /\ UNCHANGED <<subs, hnd, mods, tasks, jobs, hdr, ui>>

\* process_queue_worker, lines 281-284: generate_video_with_veo2 returns a
\* response with a job_id, or None (the call failed) or a response without
\* one; without a job_id the worker goes back to sleep.
CreateJob(w) ==
    \E has_job_id \in BOOLEAN :
        /\ app.threads[w].pc = "generate"
        /\ app' = [ app EXCEPT !.threads[w] =
              IF has_job_id THEN [ @ EXCEPT !.pc = "poll", !.polls = 0 ] ELSE IdleThread ]
        /\ UNCHANGED <<subs, hnd, mods, tasks, jobs, hdr, ui>>

\* What check_video_status returns: None (the check failed), a status that
\* is neither completed nor failed, completed with or without a video_url,
\* or failed.
StatusAnswers == { "None", "running", "completed", "completed without video_url", "failed" }

\* process_queue_worker, lines 287-318: one pass of the polling loop.
\* completed with a video_url and failed add their record and leave the
\* loop; completed without a video_url leaves it with no record; any other
\* answer sleeps, and the loop ends after its last pass.
CheckVideoStatus(w) ==
    \E status \in StatusAnswers :
        LET me == app.threads[w]
        IN  /\ me.pc = "poll"
            /\ me.polls < MaxStatusChecks
            /\ app' = IF status \in { "completed", "failed" }
                      THEN [ add_video_to_db(app, me.task, status) EXCEPT
                                !.threads[w] = IdleThread ]
                      ELSE IF status = "completed without video_url"
                              \/ me.polls + 1 = MaxStatusChecks
                      THEN [ app EXCEPT !.threads[w] = IdleThread ]
                      ELSE [ app EXCEPT !.threads[w].polls = @ + 1 ]
            /\ UNCHANGED <<subs, hnd, mods, tasks, jobs, hdr, ui>>

\* The standalone app used from one browser session, with every page.
NextApp ==
    \/ GenerateVideoPage(1)
    \/ AddToQueue(1)
    \/ QueueStatusPage(1)
    \/ CancelSelectedTask(1)
    \/ CancelSave(1)
    \/ \E w \in Threads : GetNextLoad(w)
    \/ \E w \in Threads : GetNextSave(w)
    \/ \E w \in Threads : CreateJob(w)
    \/ \E w \in Threads : CheckVideoStatus(w)

SpecApp == Init /\ [][NextApp]_vars

\* The standalone app used from every browser session, each on the page
\* that generates videos.
NextSessions ==
    \/ \E s \in 1..NumSessions : GenerateVideoPage(s)
    \/ \E s \in 1..NumSessions : AddToQueue(s)
    \/ \E w \in Threads : GetNextLoad(w)
    \/ \E w \in Threads : GetNextSave(w)
    \/ \E w \in Threads : CreateJob(w)
    \/ \E w \in Threads : CheckVideoStatus(w)

SpecSessions == Init /\ [][NextSessions]_vars

TypeOK ==
    /\ DOMAIN subs \subseteq Ids
    /\ \A i \in DOMAIN subs : subs[i].status \in SubmissionStatusEnum
    /\ \A h \in Handlers : hnd[h].attempts <= MaxPollingAttempts
    /\ \A i \in Ids : jobs[i] <= Cardinality(Requests) /\ tasks[i] <= Cardinality(Requests)

\* ---------------------------------------------------------------- vocabulary of the properties
\* The retry state of the documented lifecycle; SubmissionStatusEnum has no
\* such member.
PENDING_GENERATION_RETRY == "PENDING_GENERATION_RETRY"

\* The documented status graph.
GraphStates ==
    { PENDING_PHOTO_APPROVAL, PHOTO_APPROVED, PHOTO_REJECTED, GENERATING_VIDEO,
      PENDING_VIDEO_APPROVAL, GENERATION_FAILED, PENDING_GENERATION_RETRY,
      VIDEO_APPROVED, VIDEO_REJECTED }

GraphEdges ==
    { <<PENDING_PHOTO_APPROVAL, PHOTO_APPROVED>>, <<PENDING_PHOTO_APPROVAL, PHOTO_REJECTED>>,
      <<PHOTO_APPROVED, GENERATING_VIDEO>>,
      <<GENERATING_VIDEO, PENDING_VIDEO_APPROVAL>>, <<GENERATING_VIDEO, GENERATION_FAILED>>,
      <<GENERATING_VIDEO, PENDING_GENERATION_RETRY>>,
      <<PENDING_GENERATION_RETRY, GENERATING_VIDEO>>,
      <<PENDING_VIDEO_APPROVAL, VIDEO_APPROVED>>, <<PENDING_VIDEO_APPROVAL, VIDEO_REJECTED>> }

TerminalStates == { PHOTO_REJECTED, GENERATION_FAILED, VIDEO_APPROVED, VIDEO_REJECTED }

GateExpected == { PHOTO_APPROVED, PENDING_GENERATION_RETRY }

RetryResponses == { HTTP_500, HTTP_503 }

\* Handler h takes the step from position "from" to position "to".
HandlerStep(h, from, to) == hnd[h].pc = from /\ hnd'[h].pc = to

\* Handler h writes the result of a FAILED poll and the store takes the write.
FailedResultWritten(h) ==
    /\ HandlerStep(h, "result", "done")
    /\ hnd[h].poll_result.status = "FAILED"
    /\ hnd'[h].resp # HTTP_500

\* ---------------------------------------------------------------- properties

\* C1: every change of a submission's status follows an edge of the status
\* graph, a new submission starts in PENDING_PHOTO_APPROVAL, and no status
\* outside the graph is stored.
C1_StatusFollowsGraph ==
    [][ \A i \in DOMAIN subs' :
          /\ subs'[i].status \in GraphStates
          /\ IF i \in DOMAIN subs
             THEN subs'[i].status # subs[i].status
                    => <<subs[i].status, subs'[i].status>> \in GraphEdges
             ELSE subs'[i].status = PENDING_PHOTO_APPROVAL ]_vars

\* C2: once a submission's status is terminal it never changes again.
C2_TerminalNeverChanges ==
    [][ \A i \in DOMAIN subs :
          subs[i].status \in TerminalStates => subs'[i].status = subs[i].status ]_vars

\* C3: a transition is applied only when the current status is in the
\* caller's expected set: the handler's step-2 write goes through only from
\* PHOTO_APPROVED or PENDING_GENERATION_RETRY (so of two racing callers one is
\* refused), and its result write only from GENERATING_VIDEO.
C3_TransitionIsCompareAndSet ==
    [][ \A h \in Handlers :
          /\ HandlerStep(h, "claim", "initiate")
                => subs[hnd[h].id].status \in GateExpected
          /\ (HandlerStep(h, "result", "done") /\ subs' # subs)
                => subs[hnd[h].id].status = GENERATING_VIDEO ]_vars

\* C4: at any time at most one handler invocation is past the step-2 gate
\* for a given submission.
C4_OneInvocationPastGate ==
    \A i \in Ids :
        Cardinality({ h \in Handlers : hnd[h].id = i /\ hnd[h].pc \in PastGate }) <= 1

\* C5: a delivery that finds the submission in a status other than
\* PHOTO_APPROVED or PENDING_GENERATION_RETRY ends at once with a 200, having
\* changed no record, submitted no provider job and enqueued no task (a fetch
\* on which the store raised answers 503 and is not such a delivery).
C5_SkippedDeliveryIsNoOp ==
    [][ \A h \in Handlers :
          ( /\ hnd[h].pc = "idle"
            /\ hnd'[h].pc # "idle"
            /\ hnd'[h].id \in DOMAIN subs
            /\ subs[hnd'[h].id].status \notin GateExpected
            /\ hnd'[h].resp # HTTP_503 )
          => ( /\ hnd'[h].pc = "done"
               /\ hnd'[h].resp = HTTP_200
               /\ subs' = subs
               /\ jobs' = jobs
               /\ tasks' = tasks ) ]_vars

\* C5 witness: a submission went through generation once (one provider job)
\* and a second delivery for it was answered 200 as well.
C5_Witness ==
    \E h1 \in Handlers, h2 \in Handlers :
        /\ h1 # h2
        /\ hnd[h1].pc = "done" /\ hnd[h1].resp = HTTP_200
        /\ hnd[h2].pc = "done" /\ hnd[h2].resp = HTTP_200
        /\ hnd[h1].id = hnd[h2].id
        /\ hnd[h1].id \in DOMAIN subs
        /\ subs[hnd[h1].id].status = PENDING_VIDEO_APPROVAL
        /\ jobs[hnd[h1].id] = 1

\* C6: a delivery that finds PHOTO_APPROVED goes on to the update, the update
\* stores GENERATING_VIDEO, and when polling returned SUCCEEDED with a URI the
\* handler stores PENDING_VIDEO_APPROVAL with that URI and answers 200 (the
\* steps on which the store raised, answered 503 / 500, aside).
C6_SuccessfulGeneration ==
    [][ \A h \in Handlers :
          /\ ( /\ hnd[h].pc = "idle" /\ hnd'[h].pc # "idle"
               /\ hnd'[h].id \in DOMAIN subs
               /\ subs[hnd'[h].id].status = PHOTO_APPROVED
               /\ hnd'[h].resp # HTTP_503 )
             => hnd'[h].pc = "claim"
          /\ HandlerStep(h, "claim", "initiate")
             => subs'[hnd[h].id].status = GENERATING_VIDEO
          /\ ( /\ HandlerStep(h, "result", "done")
               /\ hnd[h].poll_result.status = "SUCCEEDED"
               /\ hnd'[h].resp # HTTP_500 )
             => ( /\ subs'[hnd[h].id].status = PENDING_VIDEO_APPROVAL
                  /\ subs'[hnd[h].id].generated_video_gcs_path
                        = hnd[h].poll_result.video_uri
                  /\ hnd'[h].resp = HTTP_200 ) ]_vars

\* C6 witness: one delivery ended with 200 and left the submission in
\* PENDING_VIDEO_APPROVAL with the provider's URI.
C6_Witness ==
    \E h \in Handlers :
        /\ hnd[h].pc = "done" /\ hnd[h].resp = HTTP_200
        /\ hnd[h].id \in DOMAIN subs
        /\ subs[hnd[h].id].status = PENDING_VIDEO_APPROVAL
        /\ subs[hnd[h].id].generated_video_gcs_path = VideoUri(h)
        /\ jobs[hnd[h].id] = 1
        /\ \A k \in Handlers : k # h => hnd[k].pc = "idle"

\* C7: a failed provider outcome with a retry count below max_retries moves
\* the submission to PENDING_GENERATION_RETRY with the reason as
\* error_message and answers with a failure; a delivery that finds
\* PENDING_GENERATION_RETRY passes the gate.
C7_FailureBelowMaxRetries ==
    [][ \A h \in Handlers :
          /\ (FailedResultWritten(h) /\ RetryCount(h) < MaxRetries)
             => ( /\ subs'[hnd[h].id].status = PENDING_GENERATION_RETRY
                  /\ subs'[hnd[h].id].error_message = hnd[h].poll_result.error
                  /\ hnd'[h].resp \in RetryResponses )
          /\ ( /\ hnd[h].pc = "idle" /\ hnd'[h].pc # "idle"
               /\ hnd'[h].id \in DOMAIN subs
               /\ subs[hnd'[h].id].status = PENDING_GENERATION_RETRY
               /\ hnd'[h].resp # HTTP_503 )
             => hnd'[h].pc = "claim" ]_vars

\* C8: a failed provider outcome with a retry count of at least max_retries
\* moves the submission to GENERATION_FAILED with the reason as error_message
\* and answers 200, and the handler stores GENERATION_FAILED in no other case.
C8_FailureAtMaxRetries ==
    [][ \A h \in Handlers :
          /\ (FailedResultWritten(h) /\ RetryCount(h) >= MaxRetries)
             => ( /\ subs'[hnd[h].id].status = GENERATION_FAILED
                  /\ subs'[hnd[h].id].error_message = hnd[h].poll_result.error
                  /\ hnd'[h].resp = HTTP_200 )
          /\ ( /\ hnd[h].pc \in PastGate /\ hnd'[h] # hnd[h]
               /\ subs' # subs
               /\ subs'[hnd[h].id].status = GENERATION_FAILED )
             => ( /\ hnd[h].pc = "result"
                  /\ hnd[h].poll_result.status = "FAILED"
                  /\ RetryCount(h) >= MaxRetries ) ]_vars

\* C9: with failing generations the submission is in PENDING_GENERATION_RETRY
\* after every delivery with a retry count below max_retries (answered with a
\* failure), reaches GENERATION_FAILED at the delivery with count max_retries
\* (answered 200), stays there, and the provider is submitted to at most
\* max_retries + 1 times.
C9_RetriesThenFailed ==
    [][ /\ \A h \in Handlers :
             FailedResultWritten(h)
             => IF RetryCount(h) < MaxRetries
                THEN /\ subs'[hnd[h].id].status = PENDING_GENERATION_RETRY
                     /\ hnd'[h].resp \in RetryResponses
                ELSE /\ subs'[hnd[h].id].status = GENERATION_FAILED
                     /\ hnd'[h].resp = HTTP_200
        /\ \A i \in DOMAIN subs :
             /\ subs[i].status = GENERATION_FAILED => subs'[i].status = GENERATION_FAILED
             /\ jobs'[i] <= MaxRetries + 1 ]_vars

\* C10: an exception of the provider's submit call is handled like a failed
\* poll outcome of the same delivery: the same status is stored, the same
\* response is given, and error_message holds the exception detail.
C10_SubmitExceptionLikeFailure ==
    [][ \A h \in Handlers :
          HandlerStep(h, "initiate", "done")
          => LET failed == [ status |-> "FAILED", video_uri |-> None,
                             error |-> ExceptionDetail ]
                 f == handle_result(subs, hnd[h].id, failed, RetryCount(h))
             IN  /\ subs'[hnd[h].id].status = f.subs[hnd[h].id].status
                 /\ hnd'[h].resp = f.resp
                 /\ subs'[hnd[h].id].error_message # None ]_vars

\* Handler h makes one status request to the provider and the request raises.
PollRaised(h) ==
    /\ hnd[h].pc = "poll"
    /\ hnd'[h] # hnd[h]
    /\ hnd'[h].polled = "EXCEPTION"

TimedOut == [ status |-> "FAILED", video_uri |-> None, error |-> TimeoutError ]

\* C12: every status request is one of at most max_polling_attempts, each
\* one that does not end the loop uses up an attempt, the last permitted one
\* ends it, with the time-out failure when its answer is not terminal; the
\* time-out failure is then written and answered as a failure the provider
\* reported is, with the time-out reason as error_message.
C12_PollingTerminates ==
    [][ \A h \in Handlers :
          /\ hnd'[h].attempts <= MaxPollingAttempts
          /\ (hnd[h].pc = "poll" /\ hnd'[h] # hnd[h])
             => ( /\ hnd[h].attempts + 1 <= MaxPollingAttempts
                  /\ hnd'[h].pc \in {"poll", "result"}
                  /\ hnd'[h].pc = "poll" => hnd'[h].attempts = hnd[h].attempts + 1
                  /\ hnd[h].attempts + 1 = MaxPollingAttempts => hnd'[h].pc = "result"
                  /\ ( /\ hnd[h].attempts + 1 = MaxPollingAttempts
                       /\ hnd'[h].polled \notin {"SUCCEEDED", "FAILED"} )
                     => hnd'[h].poll_result = TimedOut
                  /\ hnd'[h].poll_result = TimedOut
                     => hnd[h].attempts + 1 = MaxPollingAttempts )
          /\ ( /\ HandlerStep(h, "result", "done")
               /\ hnd[h].poll_result = TimedOut
               /\ hnd'[h].resp # HTTP_500 )
             => LET reported == [ status |-> "FAILED", video_uri |-> None,
                                  error |-> "provider error" ]
                    f == handle_result(subs, hnd[h].id, reported, RetryCount(h))
                IN  /\ subs'[hnd[h].id].status = f.subs[hnd[h].id].status
                    /\ hnd'[h].resp = f.resp
                    /\ subs'[hnd[h].id].error_message = TimeoutError ]_vars

\* C12 witness: a delivery whose polls all came back without a terminal
\* status has stored the time-out failure and has answered.
C12_Witness ==
    \E h \in Handlers :
        /\ hnd[h].pc = "done"
        /\ hnd[h].resp = HTTP_200
        /\ hnd[h].id \in DOMAIN subs
        /\ subs[hnd[h].id].status = GENERATION_FAILED
        /\ subs[hnd[h].id].error_message = TimeoutError
        /\ jobs[hnd[h].id] = 1

C14_UnknownIdAcknowledged ==
    [][ \A h \in Handlers :
          ( /\ hnd[h].pc = "idle"
            /\ hnd'[h].pc # "idle"
            /\ hnd'[h].id \notin DOMAIN subs
            /\ hnd'[h].resp # HTTP_503 )
          => ( /\ hnd'[h].pc = "done"
               /\ hnd'[h].resp = HTTP_200
               /\ subs' = subs
               /\ jobs' = jobs
               /\ tasks' = tasks ) ]_vars

\* C14 witness: a delivery was answered 200 and there is no row for its id.
C14_Witness ==
    \E h \in Handlers :
        /\ hnd[h].pc = "done"
        /\ hnd[h].resp = HTTP_200
        /\ hnd[h].id \in Ids
        /\ hnd[h].id \notin DOMAIN subs
        /\ jobs[hnd[h].id] = 0
        /\ tasks[hnd[h].id] = 0

\* Moderation request m, of the given kind and decision, makes its update
\* and is answered with the given code.
ModerationAnswered(m, kind, decision, code) ==
    /\ mods[m].pc = "write"
    /\ mods[m].kind = kind
    /\ mods[m].decision = decision
    /\ mods'[m].pc = "done"
    /\ mods'[m].resp = code

\* C15: a photo approve that succeeds moves the submission from
\* PENDING_PHOTO_APPROVAL to PHOTO_APPROVED and enqueues one task for it;
\* whatever the photo-moderation requests and their interleaving, no
\* submission ever has more than one task, and a submission whose photo is
\* pending or rejected, or that does not exist, has none.
C15_OneTaskPerApprovedPhoto ==
    [][ /\ \A m \in Mods :
             ModerationAnswered(m, "photo", "approve", HTTP_204)
             => ( /\ subs[mods[m].id].status = PENDING_PHOTO_APPROVAL
                  /\ subs'[mods[m].id].status = PHOTO_APPROVED
                  /\ tasks'[mods[m].id] = tasks[mods[m].id] + 1 )
        /\ \A i \in Ids :
             /\ tasks'[i] <= 1
             /\ i \notin DOMAIN subs' => tasks'[i] = 0
             /\ ( /\ i \in DOMAIN subs'
                  /\ subs'[i].status \in {PENDING_PHOTO_APPROVAL, PHOTO_REJECTED} )
                => tasks'[i] = 0 ]_vars

\* Moderation request m arrives at the endpoint of the given kind and its
\* fetch of the row does not raise.
ModerationArrives(m, kind) ==
    /\ mods[m].pc = "idle"
    /\ mods'[m].pc # "idle"
    /\ mods'[m].kind = kind
    /\ mods'[m].resp # HTTP_500

\* C16: a photo decision, approve or reject, that finds the submission in a
\* status other than PENDING_PHOTO_APPROVAL is refused with 400; no task is
\* enqueued and the table is left as it was (so an approve after a reject
\* leaves PHOTO_REJECTED).
C16_PhotoDecisionRefused ==
    [][ \A m \in Mods :
          ( /\ ModerationArrives(m, "photo")
            /\ mods'[m].id \in DOMAIN subs
            /\ subs[mods'[m].id].status # PENDING_PHOTO_APPROVAL )
          => ( /\ mods'[m].pc = "done"
               /\ mods'[m].resp = HTTP_400
               /\ subs' = subs
               /\ tasks' = tasks
               /\ jobs' = jobs ) ]_vars

\* C16 witness: a photo decision was applied (204), a later photo decision
\* was refused (400), and the photo is rejected with no task enqueued.
C16_Witness ==
    \E m1 \in Mods, m2 \in Mods :
        /\ m1 < m2
        /\ mods[m1].pc = "done" /\ mods[m1].kind = "photo" /\ mods[m1].resp = HTTP_204
        /\ mods[m2].pc = "done" /\ mods[m2].kind = "photo" /\ mods[m2].resp = HTTP_400
        /\ mods[m1].id \in DOMAIN subs
        /\ subs[mods[m1].id].status = PHOTO_REJECTED
        /\ tasks[mods[m1].id] = 0

\* The status a moderation endpoint of the given kind decides on.
PendingFor(kind) ==
    IF kind = "photo" THEN PENDING_PHOTO_APPROVAL ELSE PENDING_VIDEO_APPROVAL

\* C17: of the moderation requests of one kind for a submission exactly one
\* is applied and answered 204: a request's update goes through only while
\* the status is still the pending one it read, and between the read and the
\* update of a request no other moderation request changes the row.
C17_OneModerationDecisionApplied ==
    [][ /\ \A m \in Mods :
             /\ (mods[m].pc = "write" /\ mods'[m].pc = "done" /\ subs' # subs)
                => subs[mods[m].id].status = PendingFor(mods[m].kind)
             /\ ( /\ mods[m].pc = "write" /\ mods'[m] = mods[m]
                  /\ \E k \in Mods : mods'[k] # mods[k] )
                => subs' = subs
        /\ \A i \in Ids, kind \in {"photo", "video"} :
             Cardinality({ m \in Mods : /\ mods'[m].pc = "done"
                                        /\ mods'[m].id = i
                                        /\ mods'[m].kind = kind
                                        /\ mods'[m].resp = HTTP_204 }) <= 1 ]_vars

\* C18: a video decision is applied (answered 204) only on a submission in
\* PENDING_VIDEO_APPROVAL, which an approve moves to VIDEO_APPROVED and a
\* reject to VIDEO_REJECTED; a video decision that finds any other status is
\* refused with 400 and the table is left as it was.
C18_VideoDecisionOnlyWhenPending ==
    [][ \A m \in Mods :
          /\ \A decision \in {"approve", "reject"} :
                ModerationAnswered(m, "video", decision, HTTP_204)
                => ( /\ subs[mods[m].id].status = PENDING_VIDEO_APPROVAL
                     /\ subs'[mods[m].id].status
                           = IF decision = "approve" THEN VIDEO_APPROVED ELSE VIDEO_REJECTED )
          /\ ( /\ ModerationArrives(m, "video")
               /\ mods'[m].id \in DOMAIN subs
               /\ subs[mods'[m].id].status # PENDING_VIDEO_APPROVAL )
             => ( /\ mods'[m].pc = "done"
                  /\ mods'[m].resp = HTTP_400
                  /\ subs' = subs ) ]_vars

\* C19: when a photo approve has moved the submission to PHOTO_APPROVED and
\* no task was enqueued for it, the request is answered with an error (500),
\* and the status is not taken back: nothing ever returns a submission to
\* PENDING_PHOTO_APPROVAL.
C19_EnqueueFailureSurfaced ==
    [][ /\ \A m \in Mods :
             ( /\ mods[m].pc = "write" /\ mods[m].kind = "photo"
               /\ mods[m].decision = "approve"
               /\ mods'[m].pc = "done"
               /\ subs[mods[m].id].status = PENDING_PHOTO_APPROVAL
               /\ subs'[mods[m].id].status = PHOTO_APPROVED
               /\ tasks' = tasks )
             => mods'[m].resp = HTTP_500
        /\ \A i \in DOMAIN subs :
             subs[i].status # PENDING_PHOTO_APPROVAL
             => subs'[i].status # PENDING_PHOTO_APPROVAL ]_vars

\* C19 witness: the only request so far was a photo decision; it was answered
\* 500, the photo is approved and no task is enqueued.
C19_Witness ==
    \E m \in Mods :
        /\ mods[m].pc = "done" /\ mods[m].kind = "photo" /\ mods[m].resp = HTTP_500
        /\ mods[m].id \in DOMAIN subs
        /\ subs[mods[m].id].status = PHOTO_APPROVED
        /\ tasks[mods[m].id] = 0
        /\ \A k \in Requests : k # m => NotArrived(k)

\* GENERATING_VIDEO and the statuses that come after it.
GenerationStarted ==
    { GENERATING_VIDEO, PENDING_VIDEO_APPROVAL, GENERATION_FAILED, VIDEO_APPROVED,
      VIDEO_REJECTED }

VideoKept == { PENDING_VIDEO_APPROVAL, VIDEO_APPROVED, VIDEO_REJECTED }

BeforeGeneration == { PENDING_PHOTO_APPROVAL, PHOTO_APPROVED, PHOTO_REJECTED }

\* Row i has a generated video path in table s.
HasVideo(s, i) == i \in DOMAIN s /\ s[i].generated_video_gcs_path # None

\* C21: generated_video_gcs_path is set exactly when the status has at some
\* point reached PENDING_VIDEO_APPROVAL: it becomes set only by a step into
\* PENDING_VIDEO_APPROVAL, every step into PENDING_VIDEO_APPROVAL sets it, it
\* is never cleared, it is set in PENDING_VIDEO_APPROVAL, VIDEO_APPROVED and
\* VIDEO_REJECTED, and it is absent in PENDING_PHOTO_APPROVAL, PHOTO_APPROVED
\* and PHOTO_REJECTED.
C21_VideoRefIffGenerated ==
    [][ \A i \in DOMAIN subs' :
            /\ (~HasVideo(subs, i) /\ HasVideo(subs', i))
                   => subs'[i].status = PENDING_VIDEO_APPROVAL
            /\ HasVideo(subs, i) => HasVideo(subs', i)
            /\ subs'[i].status \in VideoKept => HasVideo(subs', i)
            /\ subs'[i].status \in BeforeGeneration => ~HasVideo(subs', i)
      ]_vars

\* C22: the status lookup by code carries a video URL only when the status
\* of the submission is VIDEO_APPROVED.
C22_VideoUrlOnlyWhenApproved ==
    \A code \in Codes, sign_ok \in BOOLEAN :
        LET r == get_submission(subs, code, sign_ok)
        IN  r.video_url # None => r.status = VIDEO_APPROVED

\* Request number r arrives in this step.
Arrives(r) ==
    /\ mods[r].pc = "idle" /\ hnd[r].pc = "idle"
    /\ mods'[r].pc # "idle" \/ hnd'[r].pc # "idle"

LookupShowsApprovedVideo ==
    \E code \in Codes :
        LET r == get_submission(subs, code, TRUE)
        IN  /\ r.status_code = HTTP_200
            /\ r.status = VIDEO_APPROVED
            /\ r.video_url # None

StuckGenerating(i) ==
    /\ i \in DOMAIN subs
    /\ subs[i].status = GENERATING_VIDEO
    /\ \E h \in Handlers : hnd[h].pc = "cut" /\ hnd[h].id = i

\* C25: once an invocation has been cut off between its update to
\* GENERATING_VIDEO and its result, the submission stays in
\* GENERATING_VIDEO: no step of the system changes its status, and a
\* delivery that arrives for it is answered 200 without going on.
C25_CutoffLeavesGenerating ==
    [][ \A i \in Ids :
            StuckGenerating(i)
                => /\ subs'[i].status = GENERATING_VIDEO
                   /\ \A h \in Handlers :
                         (Arrives(h) /\ hnd'[h].id = i)
                             => hnd'[h].pc = "done" /\ hnd'[h].resp \in { HTTP_200, HTTP_503 }
      ]_vars

\* Invocation h is in asyncio.sleep between two polls.
Sleeping(h) == hnd[h].pc = "poll" /\ hnd[h].attempts >= 1

\* C26: an invocation holds no connection of the pool while it sleeps
\* between polls, and so the invocations that are polling never have all
\* connections of the pool between them.
C26_NoConnectionAcrossSleep ==
    /\ \A h \in Handlers : Sleeping(h) => h \notin Holding
    /\ ~CanAcquire => \E r \in Holding : ~Sleeping(r)

\* The status of row i in table s; None when there is no such row.
StatusOf(s, i) == IF i \in DOMAIN s THEN s[i].status ELSE None

\* The status of row i becomes st in this step.
Becomes(i, st) == StatusOf(subs', i) = st /\ StatusOf(subs, i) # st

\* Moderation request m, an approve of the given kind, writes its decision
\* on row i in this step.
ApproveApplied(m, i, kind) ==
    /\ mods[m].pc = "write" /\ mods[m].id = i
    /\ mods[m].kind = kind /\ mods[m].decision = "approve"
    /\ mods'[m].pc = "done"
    /\ subs' = update_submission_status(subs, i,
                   IF kind = "photo" THEN PHOTO_APPROVED ELSE VIDEO_APPROVED,
                   None, None, None, kind = "photo", kind = "video").subs

\* Invocation h writes the result of a successful generation on row i in
\* this step.
GenerationApplied(h, i) ==
    /\ hnd[h].pc = "result" /\ hnd[h].id = i
    /\ hnd[h].poll_result.status = "SUCCEEDED"
    /\ hnd'[h].pc = "done" /\ hnd'[h].resp = HTTP_200

\* C27: VIDEO_APPROVED comes only after both human gates, in order.  The
\* status becomes PHOTO_APPROVED only by an applied photo approve; an
\* invocation goes past its check only from PHOTO_APPROVED; the video path
\* is set, and the status becomes PENDING_VIDEO_APPROVAL, only by the result
\* write of a successful generation; a video decision goes on to its write
\* only from PENDING_VIDEO_APPROVAL; the status becomes VIDEO_APPROVED only
\* by an applied video approve, and a row in VIDEO_APPROVED carries the
\* photo moderation mark, the video path and the video moderation mark.
C27_ApprovedAfterBothGates ==
    [][ \A i \in DOMAIN subs' :
            /\ Becomes(i, PHOTO_APPROVED)
                  => \E m \in Mods : ApproveApplied(m, i, "photo")
            /\ \A h \in Handlers :
                  (Arrives(h) /\ hnd'[h].pc = "claim" /\ hnd'[h].id = i)
                      => StatusOf(subs, i) = PHOTO_APPROVED
            /\ (Becomes(i, PENDING_VIDEO_APPROVAL) \/ (~HasVideo(subs, i) /\ HasVideo(subs', i)))
                  => \E h \in Handlers : GenerationApplied(h, i)
            /\ \A m \in Mods :
                  (Arrives(m) /\ mods'[m].pc = "write" /\ mods'[m].kind = "video"
                      /\ mods'[m].id = i)
                      => StatusOf(subs, i) = PENDING_VIDEO_APPROVAL /\ HasVideo(subs, i)
            /\ Becomes(i, VIDEO_APPROVED)
                  => \E m \in Mods : ApproveApplied(m, i, "video")
            /\ subs'[i].status = VIDEO_APPROVED
                  => /\ subs'[i].photo_moderated_at
                     /\ HasVideo(subs', i)
                     /\ subs'[i].video_moderated_at
      ]_vars

\* C27 witness: a submission is in VIDEO_APPROVED after a photo decision
\* answered 204, a delivery answered 200 and a video decision answered 204,
\* which arrived in this order.
C27_Witness ==
    \E i \in DOMAIN subs, m1, h, m2 \in Requests :
        /\ m1 < h /\ h < m2
        /\ subs[i].status = VIDEO_APPROVED
        /\ subs[i].generated_video_gcs_path = VideoUri(h)
        /\ mods[m1].kind = "photo" /\ mods[m1].resp = HTTP_204
        /\ hnd[h].pc = "done" /\ hnd[h].resp = HTTP_200 /\ hnd[h].id = i
        /\ mods[m2].kind = "video" /\ mods[m2].resp = HTTP_204

\* C28: generate_video answers 5xx only for failures a redelivery can make
\* good: when an invocation that has passed the idempotency check answers
\* 500 or 503, the submission is left in a status that passes the check
\* again; and an invocation that writes the result of a failed job answers
\* 200.
C28_RetryAnswerLeavesRetryableStatus ==
    [][ \A h \in Handlers :
            /\ (hnd[h].pc \in { "claim" } \cup PastGate /\ hnd'[h].pc = "done"
                    /\ hnd'[h].resp \in RetryResponses)
                  => is_processable(StatusOf(subs', hnd[h].id))
            /\ (FailedResultWritten(h) /\ subs' # subs) => hnd'[h].resp = HTTP_200
      ]_vars

\* The error_message of row i in table s; None when there is no such row.
ErrorOf(s, i) == IF i \in DOMAIN s THEN s[i].error_message ELSE None

\* C29: error_message is written only by a failure transition (a step that
\* leaves the row in GENERATION_FAILED or in the retry state), every step
\* that leaves the row in GENERATING_VIDEO leaves it without error_message,
\* and a row in any status other than the failure ones has no
\* error_message.
C29_ErrorMessageOnlyOnFailure ==
    [][ \A i \in DOMAIN subs' :
            /\ (ErrorOf(subs', i) # None /\ ErrorOf(subs', i) # ErrorOf(subs, i))
                  => subs'[i].status \in { GENERATION_FAILED, PENDING_GENERATION_RETRY }
            /\ (subs'[i].status = GENERATING_VIDEO /\ subs'[i] # subs[i])
                  => ErrorOf(subs', i) = None
            /\ subs'[i].status \notin { GENERATION_FAILED, PENDING_GENERATION_RETRY }
                  => ErrorOf(subs', i) = None
      ]_vars

\* C29 witness: invocation a has written the result of a failed job, with
\* its error_message, and invocation b has then written GENERATING_VIDEO:
\* the row has no error_message.
C29_Witness ==
    \E i \in DOMAIN subs, a, b \in Handlers :
        /\ hnd[a].pc = "done" /\ hnd[a].resp = HTTP_200 /\ hnd[a].id = i
        /\ hnd[b].pc = "initiate" /\ hnd[b].id = i
        /\ jobs[i] = 1
        /\ subs[i].status = GENERATING_VIDEO
        /\ subs[i].generated_video_gcs_path = None
        /\ subs[i].error_message = None

DecisionApplied(m) ==
    /\ mods[m].pc = "write"
    /\ mods'[m].pc = "done"
    /\ mods'[m].resp = HTTP_204
    /\ mods[m].id \in DOMAIN subs'

\* C31: after an applied reject decision, of a photo or of a video, whose
\* body carries a moderator reason, the comment of the submission is that
\* reason, and the lookup by code of the rejected submission shows it; an
\* applied approve decision leaves the submission without a comment.
C31_RejectReasonIsComment ==
    [][ \A m \in Mods :
          DecisionApplied(m)
          => LET i == mods[m].id
             IN  /\ ( mods[m].decision = "reject" /\ mods[m].reason # None )
                    => /\ subs'[i].status \in { PHOTO_REJECTED, VIDEO_REJECTED }
                       /\ subs'[i].comment = mods[m].reason
                       /\ get_submission(subs', subs'[i].submission_code, TRUE).comment
                              = mods[m].reason
                 /\ mods[m].decision = "approve" => subs'[i].comment = None
      ]_vars

\* Invocation h calls the provider's submit operation for row i in this step.
Submits(h, i) ==
    /\ hnd[h].pc = "initiate" /\ hnd[h].id = i
    /\ hnd'[h].pc # "initiate"

\* C32: the provider's submit operation is called only for a submission on
\* which a photo approve was applied earlier, under every interleaving of
\* deliveries and moderation requests.  The count of submitted jobs changes
\* only by a submit of an invocation; an invocation comes to its submit only
\* through its claim, and to its claim only by finding PHOTO_APPROVED on
\* arrival; the status becomes PHOTO_APPROVED only by an applied photo
\* approve, and no step brings PENDING_PHOTO_APPROVAL back; so at a submit the
\* row carries the photo moderation mark and is not PENDING_PHOTO_APPROVAL.
C32_SubmitOnlyAfterPhotoApprove ==
    [][ \A i \in Ids :
            /\ jobs'[i] # jobs[i]
                  => /\ jobs'[i] = jobs[i] + 1
                     /\ \E h \in Handlers : Submits(h, i)
            /\ \A h \in Handlers :
                  /\ Submits(h, i)
                        => /\ i \in DOMAIN subs
                           /\ subs[i].status # PENDING_PHOTO_APPROVAL
                           /\ subs[i].photo_moderated_at
                  /\ (hnd'[h].pc = "initiate" /\ hnd[h].pc # "initiate" /\ hnd'[h].id = i)
                        => hnd[h].pc = "claim" /\ hnd[h].id = i
                  /\ (hnd'[h].pc = "claim" /\ hnd'[h].id = i)
                        => /\ hnd[h].pc \in { "idle", "claim" }
                           /\ hnd[h].pc = "idle" => StatusOf(subs, i) = PHOTO_APPROVED
            /\ Becomes(i, PHOTO_APPROVED)
                  => \E m \in Mods : ApproveApplied(m, i, "photo")
            /\ StatusOf(subs, i) \notin { None, PENDING_PHOTO_APPROVAL }
                  => StatusOf(subs', i) \notin { None, PENDING_PHOTO_APPROVAL }
      ]_vars

\* C32 witness: a job was submitted for a submission on which two photo
\* decisions were applied, the approve first and a reject that had passed the
\* check before it afterwards: the row reads PHOTO_REJECTED.
C32_Witness ==
    \E i \in DOMAIN subs :
        /\ jobs[i] > 0
        /\ subs[i].status = PHOTO_REJECTED
        /\ Cardinality({ m \in Mods : mods[m].kind = "photo" /\ mods[m].resp = HTTP_204 }) = 2

\* C33: poll_veo2_job returns SUCCEEDED only together with a non-empty
\* video_uri, the one of the provider's answer; an answer SUCCEEDED without
\* an output URI is returned as FAILED.  So the result a handler holds is
\* never SUCCEEDED with an empty URI, and the write of a handler that moves
\* a submission to PENDING_VIDEO_APPROVAL sets a non-empty video path.
C33_SucceededOnlyWithVideoUri ==
    /\ \A h \in Handlers :
          \A data \in PollAnswers(h), attempts \in 1..MaxPollingAttempts :
              LET res == poll_veo2_job(data, attempts)
              IN  /\ res.status = "SUCCEEDED"
                        => /\ data.status = "SUCCEEDED"
                           /\ ~IsEmpty(res.video_uri)
                           /\ res.video_uri = data.output_video_uri
                  /\ (data.status = "SUCCEEDED" /\ IsEmpty(data.output_video_uri))
                        => res.status = "FAILED" /\ IsEmpty(res.video_uri)
    /\ [][ \A h \in Handlers :
              /\ hnd'[h].poll_result.status = "SUCCEEDED"
                    => ~IsEmpty(hnd'[h].poll_result.video_uri)
              /\ ( hnd[h].pc = "result" /\ hnd'[h].pc = "done"
                      /\ Becomes(hnd[h].id, PENDING_VIDEO_APPROVAL) )
                    => /\ hnd[h].poll_result.status = "SUCCEEDED"
                       /\ ~IsEmpty(subs'[hnd[h].id].generated_video_gcs_path)
                       /\ subs'[hnd[h].id].generated_video_gcs_path
                              = hnd[h].poll_result.video_uri
        ]_vars

\* C33 witness: the provider answered SUCCEEDED without an output URI, the
\* loop returned FAILED with the missing-URI error, and the handler wrote
\* GENERATION_FAILED with that error and no video path.
C33_Witness ==
    \E i \in DOMAIN subs :
        /\ subs[i].status = GENERATION_FAILED
        /\ subs[i].error_message = MissingUriError
        /\ IsEmpty(subs[i].generated_video_gcs_path)
        /\ \E h \in Handlers : hnd[h].pc = "done" /\ hnd[h].id = i /\ hnd[h].resp = HTTP_200

\* Invocation h of the worker runs its except block for an exception raised
\* before it had moved the row to GENERATING_VIDEO.
RaisedBeforeClaim(h) ==
    /\ hnd[h].pc \in { "except", "except_write" }
    /\ hnd[h].e \in { "fetch", "claim" }

\* C34: the except path of process_submission marks a submission
\* GENERATION_FAILED only if this invocation had itself moved it to
\* GENERATING_VIDEO: an invocation whose exception was raised before its
\* claim leaves the table as it is in each of its steps.
C34_ExceptMarksOnlyOwnClaim ==
    [][ \A h \in Handlers :
            (RaisedBeforeClaim(h) /\ hnd'[h] # hnd[h]) => subs' = subs ]_vars

\* C35: confirming the rejection dialog sends a reject for exactly the
\* submission the dialog was opened for and for no other item of the list,
\* and once the decision is sent, with success or not, the confirmation flag
\* is cleared: a reject is sent only by the run that follows the
\* confirmation, it is the one reject of the dialog's submission, and the
\* flag is unset after it.
C35_RejectOnlyConfirmedItem ==
    [][ ui'.sent # << >>
            => /\ ui.rerun /\ ui.dialog # 0 /\ ui.confirmed_rejection
               /\ ui'.sent = << ui.dialog >>
               /\ ~ui'.confirmed_rejection
      ]_vars


\* ---------------------------------------------------------------- the queue of the standalone app
\* The ids recorded as cancelled in videos.pkl.
CancelledIds ==
    { app.videos[k].id : k \in { n \in DOMAIN app.videos : app.videos[n].status = "cancelled" } }

\* No session stands inside add_to_queue or the cancel handler and no thread
\* inside get_next_from_queue.
QueueAtRest ==
    /\ \A s \in 1..NumSessions : app.sessions[s].pc \in { "idle", "shown" }
    /\ \A w \in Threads : app.threads[w].pc # "pop"

IsPrefix(p, q) == Len(p) <= Len(q) /\ \A k \in DOMAIN p : p[k] = q[k]

\* C36: in the file-backed queue, under any interleaving of add_to_queue and
\* get_next_from_queue, no task is lost and none is handed out twice: as long
\* as nothing was cancelled, the tasks returned by get_next_from_queue are a
\* prefix of the tasks added, in the order they were added, and whenever no
\* queue operation is under way the tasks returned followed by the tasks in
\* the file are exactly the tasks added.
C36_QueueHandsOutEachTaskOnce ==
    CancelledIds = {}
        => /\ IsPrefix(app.taken, app.added)
           /\ QueueAtRest => app.taken \o app.queue = app.added


\* The records of videos.pkl for the task with a status of a finished job.
FinishedRecords(videos, id) ==
    { k \in DOMAIN videos :
        videos[k].id = id /\ videos[k].status \in { "completed", "failed" } }

\* C37: every task the worker takes from the queue ends with exactly one
\* record for its id in the videos database with status completed or failed:
\* when a thread lets go of its task, videos.pkl holds one such record.
C37_TakenTaskEndsWithOneRecord ==
    [][ \A w \in Threads :
            (app.threads[w].task # 0 /\ app'.threads[w].task = 0)
                => Cardinality(FinishedRecords(app'.videos, app.threads[w].task)) = 1
      ]_vars


\* The queue without the task.
Without(queue, id) ==
    LET Other(t) == t # id IN SelectSeq(queue, Other)

\* The tasks get_next_from_queue has returned.
TakenIds == { app.taken[k] : k \in DOMAIN app.taken }

\* C38: 'Cancel Selected Task' removes from the queue exactly the task the
\* user selected and records that task as cancelled, and a task already taken
\* by the worker is never recorded as cancelled: a step that adds a cancelled
\* record adds it for the task selected in the rendered list, that task was
\* not taken, and the queue file loses that task and no other.
C38_CancelRemovesSelectedTask ==
    [][ \A s \in 1..NumSessions :
            (app.sessions[s].pc = "cancel" /\ app'.sessions[s].pc # "cancel"
                    /\ app'.videos # app.videos)
                => LET selected == app.sessions[s].selected
                   IN  /\ app'.videos
                            = Append(app.videos, [ id |-> selected, status |-> "cancelled" ])
                       /\ selected \notin TakenIds
                       /\ app'.queue = Without(app.queue, selected)
      ]_vars


\* C39: the background queue worker is started only if it is not already
\* running: at most one process_queue_worker thread exists in the process at
\* any time, however many sessions and reruns call main().
C39_AtMostOneWorkerThread == Cardinality(Threads) <= 1

====
